---- MODULE Spec2Model ----
(***************************************************************************)
(* A model of the zonetrix layout core: the zoom/pan controller            *)
(* (hooks/useZoomPan.ts), the overlap engine (core/collision-detection.ts) *)
(* and the layout generators (grid, arc, circle, sections).                *)
(*                                                                         *)
(* Numbers.  A JavaScript number is modelled as an exact extended          *)
(* rational [n, d]: d > 0 is the fraction n/d in lowest terms, d = 0 is    *)
(* +Infinity (n = 1), -Infinity (n = -1) or NaN (n = 0).  Rounding of      *)
(* IEEE doubles and the sign of zero are not modelled.                     *)
(***************************************************************************)
EXTENDS Integers, Sequences, FiniteSets, TLC

VARIABLES
    config,       \* ZoomPanConfig after defaults: minZoom, maxZoom, zoomSpeed, initial*
    zoom,         \* useState zoom: the value of the latest setZoomState
    panX,         \* useState panX
    panY,         \* useState panY
    isPanning,    \* useState isPanning
    panStartRef,  \* useRef {x, y, panX, panY}
    view,         \* the state captured by the callbacks of the last render
    calls,        \* number of controller calls made so far (bounded by MaxCalls)
    layout,       \* the LayoutConfig (or the autoAdjustSectionPositions arguments) given
    pc,           \* "input" before the generator ran, then the name of what ran
    cells,        \* the Cell[] a generator returned
    adjusted,     \* the SectionBlock[] autoAdjustSectionPositions returned
    iterations,   \* preserveRelativeStrategy: the local iterations
    searchDistance, \* findNextAvailablePosition: the ring distance being examined
    sortedBlocks, \* compactLayoutStrategy: the local sorted
    placedBounds, \* compactLayoutStrategy: the local placed
    args,         \* the arguments of a call of a pure function
    result,       \* what that call returned
    props,        \* ZonetrixCanvas: value, selectablePredicate and the callbacks given
    internalSelection, \* ZonetrixCanvas: useState internalSelection
    emitted,      \* ZonetrixCanvas: the callbacks the last handler called, in order
    callerBlocks, \* autoAdjustSectionPositions: the objects of the array passed, as they are now
    sharedOrigins \* the positions of adjusted whose origin is the object of the block passed

ctlVars == <<config, zoom, panX, panY, isPanning, panStartRef, view, calls>>
loopVars == <<iterations, searchDistance, sortedBlocks, placedBounds>>
fnVars == <<args, result>>
uiVars == <<props, internalSelection, emitted>>
aliasVars == <<callerBlocks, sharedOrigins>>
auxVars == <<iterations, searchDistance, sortedBlocks, placedBounds, args, result,
             callerBlocks, sharedOrigins>>
genVars == <<layout, pc, cells, adjusted,
             iterations, searchDistance, sortedBlocks, placedBounds, args, result,
             callerBlocks, sharedOrigins>>
vars == <<config, zoom, panX, panY, isPanning, panStartRef, view, calls,
          layout, pc, cells, adjusted,
          iterations, searchDistance, sortedBlocks, placedBounds, args, result,
          props, internalSelection, emitted, callerBlocks, sharedOrigins>>

(***************************************************************************)
(* Bounds of the model.                                                    *)
(***************************************************************************)
MaxCalls == 3

(***************************************************************************)
(* JavaScript numbers as extended rationals.                               *)
(***************************************************************************)
Abs(i) == IF i < 0 THEN -i ELSE i

Sign(i) == IF i < 0 THEN -1 ELSE IF i > 0 THEN 1 ELSE 0

RECURSIVE GCD(_, _)
GCD(a, b) == IF b = 0 THEN a ELSE GCD(b, a % b)

\* n/d with d # 0 in lowest terms and a positive denominator
Norm(n, d) ==
    LET g == GCD(Abs(n), Abs(d))
    IN  [n |-> (Sign(d) * n) \div g, d |-> Abs(d) \div g]

I(i) == [n |-> i, d |-> 1]

Q(n, d) == Norm(n, d)

NaN == [n |-> 0, d |-> 0]

Infinity(s) == [n |-> s, d |-> 0]

IsNaN(a) == a.d = 0 /\ a.n = 0

IsFinite(a) == a.d # 0

Neg(a) == [n |-> -a.n, d |-> a.d]

Add(a, b) ==
    IF a.d = 1 /\ b.d = 1 THEN [n |-> a.n + b.n, d |-> 1]
    ELSE IF a.d # 0 /\ b.d # 0 THEN Norm(a.n * b.d + b.n * a.d, a.d * b.d)
    ELSE IF IsNaN(a) \/ IsNaN(b) THEN NaN
    ELSE IF a.d = 0 /\ b.d = 0 THEN (IF a.n = b.n THEN a ELSE NaN)
    ELSE IF a.d = 0 THEN a ELSE b

Sub(a, b) == Add(a, Neg(b))

Mul(a, b) ==
    IF a.d = 1 /\ b.d = 1 THEN [n |-> a.n * b.n, d |-> 1]
    ELSE IF a.d # 0 /\ b.d # 0
         THEN LET g1 == GCD(Abs(a.n), b.d)
                  g2 == GCD(Abs(b.n), a.d)
              IN  Norm((a.n \div g1) * (b.n \div g2), (a.d \div g2) * (b.d \div g1))
    ELSE IF a.n = 0 \/ b.n = 0 THEN NaN          \* NaN * x, 0 * Infinity
    ELSE Infinity(Sign(a.n) * Sign(b.n))

Div(a, b) ==
    IF IsNaN(a) \/ IsNaN(b) THEN NaN
    ELSE IF b.d = 0 THEN (IF a.d = 0 THEN NaN ELSE I(0))
    ELSE IF b.n = 0 THEN (IF a.n = 0 THEN NaN ELSE Infinity(Sign(a.n)))
    ELSE IF a.d = 0 THEN Infinity(a.n * Sign(b.n))
    ELSE Norm(a.n * b.d, a.d * b.n)

\* a < b, false when either is NaN
Lt(a, b) ==
    IF IsNaN(a) \/ IsNaN(b) THEN FALSE
    ELSE IF a.d = 0 /\ b.d = 0 THEN a.n < b.n
    ELSE a.n * b.d < b.n * a.d

\* a <= b, false when either is NaN
Le(a, b) == ~IsNaN(a) /\ ~IsNaN(b) /\ ~Lt(b, a)

MathMax(a, b) == IF IsNaN(a) \/ IsNaN(b) THEN NaN ELSE IF Lt(a, b) THEN b ELSE a

MathMin(a, b) == IF IsNaN(a) \/ IsNaN(b) THEN NaN ELSE IF Lt(b, a) THEN b ELSE a

(***************************************************************************)
(* core/math: clamp                                                        *)
(***************************************************************************)
clampLoose(value, min, max) == MathMax(value, min)

clamp(value, min, max) == MathMin(MathMax(value, min), max)

(***************************************************************************)
(* hooks/useZoomPan: the controller.  A callback reads the state its       *)
(* render captured (view) and the ref, and writes the state with the       *)
(* setters; Render is React re-rendering the component, which re-creates   *)
(* the callbacks over the current state.                                   *)
(***************************************************************************)
Snapshot(z, px, py, ip) == [zoom |-> z, panX |-> px, panY |-> py, isPanning |-> ip]

\* the values setZoom, zoomIn, zoomOut and zoomToPoint are called with
ZoomRequests == {I(-1), I(0), Q(1, 2), I(3), I(100)}

Cursors == {<<I(0), I(0)>>, <<I(100), I(50)>>}

ZoomDeltas == {I(-10), Q(-1, 2), Q(1, 4), I(10)}

ZoomRanges == {<<Q(1, 10), I(5)>>, <<Q(1, 2), I(2)>>, <<I(1), I(1)>>, <<I(0), I(4)>>,
               <<I(-1), I(1)>>}

ZoomPanConfigs ==
    { [minZoom |-> r[1], maxZoom |-> r[2], zoomSpeed |-> s, initialZoom |-> z,
       initialPanX |-> I(0), initialPanY |-> I(0)] :
        r \in ZoomRanges, s \in {Q(1, 10), Q(1, 2)}, z \in {I(1), I(8)} }

NoLayout == [type |-> "none"]

NoArgs == [fn |-> "none"]

NoProps == [value |-> {}]

InitUi ==
    /\ props = NoProps
    /\ internalSelection = <<>>
    /\ emitted = <<>>

InitAlias ==
    /\ callerBlocks = <<>>
    /\ sharedOrigins = {}

InitAux ==
    /\ iterations = 0
    /\ searchDistance = 0
    /\ sortedBlocks = <<>>
    /\ placedBounds = <<>>
    /\ args = NoArgs
    /\ result = NoArgs
    /\ InitUi
    /\ InitAlias

InitCtl ==
    /\ config \in ZoomPanConfigs
    /\ zoom = config.initialZoom
    /\ panX = config.initialPanX
    /\ panY = config.initialPanY
    /\ isPanning = FALSE
    /\ panStartRef = [x |-> I(0), y |-> I(0), panX |-> I(0), panY |-> I(0)]
    /\ view = Snapshot(config.initialZoom, config.initialPanX, config.initialPanY, FALSE)
    /\ calls = 0
    /\ layout = NoLayout
    /\ pc = "none"
    /\ cells = <<>>
    /\ adjusted = <<>>
    /\ InitAux

\* a call of one of the returned callbacks, recorded in args
Call(a) ==
    /\ calls < MaxCalls
    /\ calls' = calls + 1
    /\ args' = a
    /\ UNCHANGED <<layout, pc, cells, adjusted, loopVars, aliasVars, result>>
    /\ UNCHANGED uiVars

Render ==
    /\ view' = Snapshot(zoom, panX, panY, isPanning)
    /\ UNCHANGED <<config, zoom, panX, panY, isPanning, panStartRef, calls>>
    /\ UNCHANGED <<genVars, uiVars>>

\* setZoom's body: setZoomState(clamp(newZoom, minZoom, maxZoom))
setZoomValue(newZoom) == clamp(newZoom, config.minZoom, config.maxZoom)

setZoom ==
    \E newZoom \in ZoomRequests :
        /\ Call([fn |-> "setZoom", newZoom |-> newZoom])
        /\ zoom' = setZoomValue(newZoom)
        /\ UNCHANGED <<config, panX, panY, isPanning, panStartRef, view>>

zoomIn ==
    /\ Call([fn |-> "zoomIn"])
    /\ zoom' = setZoomValue(Mul(view.zoom, Add(I(1), config.zoomSpeed)))
    /\ UNCHANGED <<config, panX, panY, isPanning, panStartRef, view>>

zoomOut ==
    /\ Call([fn |-> "zoomOut"])
    /\ zoom' = setZoomValue(Mul(view.zoom, Sub(I(1), config.zoomSpeed)))
    /\ UNCHANGED <<config, panX, panY, isPanning, panStartRef, view>>

\* the pan follows the requested zoom, the zoom is clamped
zoomToPointStateByRequest(clientX, clientY, deltaZoom) ==
    LET newZoom == clamp(Add(view.zoom, deltaZoom), config.minZoom, config.maxZoom)
        zoomRatio == Div(Add(view.zoom, deltaZoom), view.zoom)
    IN  [zoom |-> newZoom,
         panX |-> Sub(clientX, Mul(Sub(clientX, view.panX), zoomRatio)),
         panY |-> Sub(clientY, Mul(Sub(clientY, view.panY), zoomRatio))]

\* the state zoomToPoint(clientX, clientY, deltaZoom) sets
zoomToPointState(clientX, clientY, deltaZoom) ==
    LET newZoom == clamp(Add(view.zoom, deltaZoom), config.minZoom, config.maxZoom)
        zoomRatio == Div(newZoom, view.zoom)
    IN  [zoom |-> newZoom,
         panX |-> Sub(clientX, Mul(Sub(clientX, view.panX), zoomRatio)),
         panY |-> Sub(clientY, Mul(Sub(clientY, view.panY), zoomRatio))]

zoomToPoint ==
    \E c \in Cursors, deltaZoom \in ZoomDeltas :
        LET s == zoomToPointState(c[1], c[2], deltaZoom)
        IN  /\ Call([fn |-> "zoomToPoint", clientX |-> c[1], clientY |-> c[2],
                      deltaZoom |-> deltaZoom])
            /\ zoom' = s.zoom
            /\ panX' = s.panX
            /\ panY' = s.panY
            /\ UNCHANGED <<config, isPanning, panStartRef, view>>

NextZoom == setZoom \/ zoomIn \/ zoomOut \/ zoomToPoint \/ Render

SpecZoom == InitCtl /\ [][NextZoom]_vars

\* resetZoom: setZoomState(1); setPanX(0); setPanY(0)
resetZoom ==
    /\ Call([fn |-> "resetZoom"])
    /\ zoom' = I(1)
    /\ panX' = I(0)
    /\ panY' = I(0)
    /\ UNCHANGED <<config, isPanning, panStartRef, view>>

\* the zoom that fits the width alone
fitToViewZoomByWidth(contentWidth, contentHeight, viewportWidth, viewportHeight, padding) ==
    clamp(Div(Sub(viewportWidth, Mul(padding, I(2))), contentWidth),
          config.minZoom, config.maxZoom)

\* newZoom of fitToView
fitToViewZoom(contentWidth, contentHeight, viewportWidth, viewportHeight, padding) ==
    LET scaleX == Div(Sub(viewportWidth, Mul(padding, I(2))), contentWidth)
        scaleY == Div(Sub(viewportHeight, Mul(padding, I(2))), contentHeight)
    IN  clamp(MathMin(scaleX, scaleY), config.minZoom, config.maxZoom)

\* <<contentWidth, contentHeight, viewportWidth, viewportHeight, padding>>
FitRequests ==
    { <<I(1000), I(1000), I(500), I(500), I(0)>>,
      <<I(200), I(100), I(800), I(600), I(40)>>,
      <<I(100), I(400), I(800), I(600), I(40)>>,
      <<I(0), I(100), I(500), I(500), I(40)>>,
      <<I(0), I(0), I(80), I(80), I(40)>> }

fitToView ==
    \E f \in FitRequests :
        /\ Call([fn |-> "fitToView", contentWidth |-> f[1], contentHeight |-> f[2],
                 viewportWidth |-> f[3], viewportHeight |-> f[4], padding |-> f[5]])
        /\ zoom' = fitToViewZoom(f[1], f[2], f[3], f[4], f[5])
        /\ panX' = I(0)
        /\ panY' = I(0)
        /\ UNCHANGED <<config, isPanning, panStartRef, view>>

\* event.deltaY of the wheel events
WheelDeltas == {I(-1000), I(1000)}

\* handleWheel calls the zoomToPoint of its own render
handleWheel ==
    \E c \in Cursors, deltaY \in WheelDeltas :
        LET delta == Mul(Neg(deltaY), Q(1, 1000))
            deltaZoom == Mul(Mul(view.zoom, delta), config.zoomSpeed)
            s == zoomToPointState(c[1], c[2], deltaZoom)
        IN  /\ Call([fn |-> "handleWheel", clientX |-> c[1], clientY |-> c[2],
                     deltaY |-> deltaY])
            /\ zoom' = s.zoom
            /\ panX' = s.panX
            /\ panY' = s.panY
            /\ UNCHANGED <<config, isPanning, panStartRef, view>>

\* the pointer positions startPan and updatePan are called with
Pointers == {<<I(0), I(0)>>, <<I(100), I(50)>>, <<I(-30), I(70)>>}

startPan ==
    \E c \in Pointers :
        /\ Call([fn |-> "startPan", clientX |-> c[1], clientY |-> c[2]])
        /\ isPanning' = TRUE
        /\ panStartRef' = [x |-> c[1], y |-> c[2], panX |-> view.panX, panY |-> view.panY]
        /\ UNCHANGED <<config, zoom, panX, panY, view>>

updatePan ==
    \E c \in Pointers :
        /\ Call([fn |-> "updatePan", clientX |-> c[1], clientY |-> c[2]])
        /\ IF ~view.isPanning
           THEN UNCHANGED <<panX, panY>>
           ELSE /\ panX' = Add(panStartRef.panX, Sub(c[1], panStartRef.x))
                /\ panY' = Add(panStartRef.panY, Sub(c[2], panStartRef.y))
        /\ UNCHANGED <<config, zoom, isPanning, panStartRef, view>>

endPan ==
    /\ Call([fn |-> "endPan"])
    /\ isPanning' = FALSE
    /\ UNCHANGED <<config, zoom, panX, panY, panStartRef, view>>

\* fitting, after zooms at the cursor
NextFit == fitToView \/ zoomToPoint \/ Render

SpecFit == InitCtl /\ [][NextFit]_vars

\* pan sessions
NextPan == startPan \/ updatePan \/ endPan \/ Render

SpecPan == InitCtl /\ [][NextPan]_vars

(***************************************************************************)
(* core/collision-detection: rectangles and cell overlap.                  *)
(***************************************************************************)
Point(x, y) == [x |-> x, y |-> y]

cellToRectangle(cell, padding) ==
    [x      |-> Sub(Sub(cell.x, Div(cell.w, I(2))), padding),
     y      |-> Sub(Sub(cell.y, Div(cell.h, I(2))), padding),
     width  |-> Add(cell.w, Mul(padding, I(2))),
     height |-> Add(cell.h, Mul(padding, I(2)))]

\* the test on closed rectangles: a shared edge counts
rectanglesIntersectClosed(rect1, rect2) ==
    ~(\/ Lt(Add(rect1.x, rect1.width), rect2.x)
      \/ Lt(Add(rect2.x, rect2.width), rect1.x)
      \/ Lt(Add(rect1.y, rect1.height), rect2.y)
      \/ Lt(Add(rect2.y, rect2.height), rect1.y))

rectanglesIntersect(rect1, rect2) ==
    ~(\/ Le(Add(rect1.x, rect1.width), rect2.x)
      \/ Le(Add(rect2.x, rect2.width), rect1.x)
      \/ Le(Add(rect1.y, rect1.height), rect2.y)
      \/ Le(Add(rect2.y, rect2.height), rect1.y))

cellsOverlap(cell1, cell2, minSpacing) ==
    LET rect1 == cellToRectangle(cell1, Div(minSpacing, I(2)))
        rect2 == cellToRectangle(cell2, Div(minSpacing, I(2)))
    IN  rectanglesIntersect(rect1, rect2)

\* the index pairs <<i, j>>, i < j <= n, in the order of the two nested loops
RECURSIVE PairsFrom(_, _)
PairsFrom(i, n) ==
    IF i >= n THEN <<>>
    ELSE [k \in 1..(n - i) |-> <<i, i + k>>] \o PairsFrom(i + 1, n)

detectOverlaps(cs, minSpacing) ==
    LET hit(p) == cellsOverlap(cs[p[1]], cs[p[2]], minSpacing)
        found == SelectSeq(PairsFrom(1, Len(cs)), hit)
        overlappingPairs == [k \in 1..Len(found) |->
                                [cell1 |-> cs[found[k][1]], cell2 |-> cs[found[k][2]]]]
    IN  [hasOverlaps |-> Len(overlappingPairs) > 0,
         overlappingPairs |-> overlappingPairs,
         overlapCount |-> Len(overlappingPairs)]

calculateMinimumGridGap(cellWidth, cellHeight, minSpacing) == MathMax(I(0), minSpacing)

(***************************************************************************)
(* core/layout-grid: createGridLayout.  A GridLayoutConfig is held after   *)
(* the destructuring defaults (gap 0, origin (0,0), autoPreventOverlap     *)
(* true, minSpacing 2); rows and cols are loop counts.  The axis labels    *)
(* (computeAxisLabels) are not part of the cell modelled here.             *)
(***************************************************************************)
adjustedGapRequested(cfg) == cfg.gap

adjustedGap(cfg) ==
    IF cfg.autoPreventOverlap
    THEN MathMax(cfg.gap, calculateMinimumGridGap(cfg.cellSize, cfg.cellSize, cfg.minSpacing))
    ELSE cfg.gap

gridCell(cfg, g, row, col) ==
    [id   |-> [row |-> row, col |-> col],
     kind |-> "seat",
     x    |-> Add(Add(cfg.origin.x, Mul(I(col), Add(cfg.cellSize, g))), Div(cfg.cellSize, I(2))),
     y    |-> Add(Add(cfg.origin.y, Mul(I(row), Add(cfg.cellSize, g))), Div(cfg.cellSize, I(2))),
     w    |-> cfg.cellSize,
     h    |-> cfg.cellSize,
     meta |-> [status |-> "available"]]

\* the inner loop: for (col; col < cols; col++) cells.push(cell)
RECURSIVE gridColLoop(_, _, _, _)
gridColLoop(cfg, g, row, col) ==
    IF col < cfg.cols
    THEN <<gridCell(cfg, g, row, col)>> \o gridColLoop(cfg, g, row, col + 1)
    ELSE <<>>

\* the outer loop: for (row; row < rows; row++)
RECURSIVE gridRowLoop(_, _, _)
gridRowLoop(cfg, g, row) ==
    IF row < cfg.rows
    THEN gridColLoop(cfg, g, row, 0) \o gridRowLoop(cfg, g, row + 1)
    ELSE <<>>

\* the loops nested the other way round: column by column
RECURSIVE gridColumnMajor(_, _, _)
gridColumnMajor(cfg, g, col) ==
    IF col < cfg.cols
    THEN [r \in 1..cfg.rows |-> gridCell(cfg, g, r - 1, col)] \o gridColumnMajor(cfg, g, col + 1)
    ELSE <<>>

gridCellsColumnMajor(cfg, g) == gridColumnMajor(cfg, g, 0)

gridCells(cfg, g) == gridRowLoop(cfg, g, 0)

createGridLayout(cfg) == gridCells(cfg, adjustedGap(cfg))

MaxRows == 3

MaxCols == 3

GridConfigs ==
    { [type |-> "grid", rows |-> r, cols |-> c, cellSize |-> cs, gap |-> g, origin |-> o,
       autoPreventOverlap |-> ap, minSpacing |-> ms] :
        r \in 0..MaxRows, c \in 0..MaxCols, cs \in {Q(1, 2), I(20)},
        g \in {I(-5), I(0), I(1), I(5)}, o \in {Point(I(0), I(0)), Point(I(10), I(-7))},
        ap \in BOOLEAN, ms \in {I(0), I(2), I(3)} }

InitGen(configs) ==
    /\ config = [minZoom |-> Q(1, 10), maxZoom |-> I(5), zoomSpeed |-> Q(1, 10),
                 initialZoom |-> I(1), initialPanX |-> I(0), initialPanY |-> I(0)]
    /\ zoom = config.initialZoom
    /\ panX = config.initialPanX
    /\ panY = config.initialPanY
    /\ isPanning = FALSE
    /\ panStartRef = [x |-> I(0), y |-> I(0), panX |-> I(0), panY |-> I(0)]
    /\ view = Snapshot(config.initialZoom, config.initialPanX, config.initialPanY, FALSE)
    /\ calls = 0
    /\ layout \in configs
    /\ pc = "input"
    /\ cells = <<>>
    /\ adjusted = <<>>
    /\ InitAux

InitGrid == InitGen(GridConfigs)

CreateGrid ==
    /\ pc = "input"
    /\ layout.type = "grid"
    /\ cells' = createGridLayout(layout)
    /\ pc' = "grid"
    /\ UNCHANGED <<layout, adjusted>>
    /\ UNCHANGED <<ctlVars, uiVars>>
    /\ UNCHANGED auxVars

NextGrid == CreateGrid

SpecGrid == InitGrid /\ [][NextGrid]_vars

(***************************************************************************)
(* Math.sin and Math.cos.  An angle in radians is held as its measure in   *)
(* degrees (the code only ever forms radians as degrees * PI / 180), and   *)
(* the sine is read from a table of three-decimal values at whole degrees, *)
(* interpolated linearly in between and extended by the symmetries of the  *)
(* sine.  The multiples of 90 degrees are exact: sin(180 deg) is 0 here    *)
(* and 1.22e-16 in IEEE arithmetic.                                        *)
(***************************************************************************)
SinTable ==
    <<  0, 17, 35, 52, 70, 87, 105, 122, 139, 156, 174, 191, 208,
        225, 242, 259, 276, 292, 309, 326, 342, 358, 375, 391, 407, 423,
        438, 454, 469, 485, 500, 515, 530, 545, 559, 574, 588, 602, 616,
        629, 643, 656, 669, 682, 695, 707, 719, 731, 743, 755, 766, 777,
        788, 799, 809, 819, 829, 839, 848, 857, 866, 875, 883, 891, 899,
        906, 914, 921, 927, 934, 940, 946, 951, 956, 961, 966, 970, 974,
        978, 982, 985, 988, 990, 993, 995, 996, 998, 999, 999, 1000, 1000 >>

\* a finite angle reduced into [0, 360)
Mod360(a) == Norm(a.n % (360 * a.d), a.d)

\* the sine of t degrees, 0 <= t <= 90
SinFirstQuadrant(t) ==
    LET lo == t.n \div t.d
        frac == Sub(t, I(lo))
    IN  IF lo >= 90 THEN I(1)
        ELSE Add(Q(SinTable[lo + 1], 1000),
                 Mul(Q(SinTable[lo + 2] - SinTable[lo + 1], 1000), frac))

MathSin(deg) ==
    IF ~IsFinite(deg) THEN NaN
    ELSE LET t == Mod360(deg)
         IN  IF Le(t, I(90)) THEN SinFirstQuadrant(t)
             ELSE IF Le(t, I(180)) THEN SinFirstQuadrant(Sub(I(180), t))
             ELSE IF Le(t, I(270)) THEN Neg(SinFirstQuadrant(Sub(t, I(180))))
             ELSE Neg(SinFirstQuadrant(Sub(I(360), t)))

MathCos(deg) == MathSin(Add(deg, I(90)))

(***************************************************************************)
(* core/math: polarToCartesian                                             *)
(***************************************************************************)
polarToCartesian(centerX, centerY, radius, angleDegrees) ==
    [x |-> Add(centerX, Mul(radius, MathCos(angleDegrees))),
     y |-> Add(centerY, Mul(radius, MathSin(angleDegrees)))]

(***************************************************************************)
(* core/collision-detection: calculateMinimumArcRadius                     *)
(***************************************************************************)
calculateMinimumArcRadius(seatCount, cellWidth, sweepDegrees, minSpacing) ==
    IF seatCount <= 1 THEN cellWidth
    ELSE LET angularSpacing == Div(sweepDegrees, I(seatCount - 1))
             minChordLength == Add(cellWidth, minSpacing)
             minRadius == Div(minChordLength, Mul(I(2), MathSin(Div(angularSpacing, I(2)))))
         IN  Add(MathMax(minRadius, cellWidth), Div(cellWidth, I(2)))

(***************************************************************************)
(* core/layout-arc: createArcLayout, and core/layout-circle:               *)
(* createCircleLayout.  An ArcLayoutConfig is held after the destructuring *)
(* defaults; count is a loop count.                                        *)
(***************************************************************************)
adjustedRadius(cfg) ==
    IF cfg.autoPreventOverlap /\ cfg.count > 1
    THEN MathMax(cfg.radius,
                 calculateMinimumArcRadius(cfg.count, cfg.cellSize, cfg.sweepDegrees,
                                           cfg.minSpacing))
    ELSE cfg.radius

startAngle(cfg) == Sub(I(-90), Div(cfg.sweepDegrees, I(2)))

angleStep(cfg) ==
    IF cfg.count > 1 THEN Div(cfg.sweepDegrees, I(cfg.count - 1)) ELSE I(0)

arcCell(cfg, i) ==
    LET angle == Add(startAngle(cfg), Mul(I(i), angleStep(cfg)))
        pos == polarToCartesian(cfg.origin.x, cfg.origin.y, adjustedRadius(cfg), angle)
    IN  [id       |-> [index |-> i],
         kind     |-> "seat",
         x        |-> pos.x,
         y        |-> pos.y,
         w        |-> cfg.cellSize,
         h        |-> cfg.cellSize,
         rotation |-> Add(angle, I(90)),
         meta     |-> [status |-> "available"]]

\* the loop: for (i; i < count; i++) cells.push(cell)
RECURSIVE arcLoop(_, _)
arcLoop(cfg, i) ==
    IF i < cfg.count THEN <<arcCell(cfg, i)>> \o arcLoop(cfg, i + 1) ELSE <<>>

\* the loop counting the seats from 1
arcCellsFromOne(cfg) == [k \in 1..cfg.count |-> arcCell(cfg, k)]

arcCells(cfg) == arcLoop(cfg, 0)

createArcLayout(cfg) == arcCells(cfg)

createCircleLayout(cfg) ==
    createArcLayout([type |-> "arc", radius |-> cfg.radius, sweepDegrees |-> I(360),
                     count |-> cfg.count, cellSize |-> cfg.cellSize, origin |-> cfg.origin,
                     autoPreventOverlap |-> cfg.autoPreventOverlap,
                     minSpacing |-> cfg.minSpacing])

MaxCount == 5

ArcConfigs ==
    { [type |-> "arc", radius |-> r, sweepDegrees |-> sw, count |-> n, cellSize |-> I(20),
       origin |-> o, autoPreventOverlap |-> ap, minSpacing |-> I(2)] :
        r \in {I(5), I(100)}, sw \in {I(45), I(90), I(180), I(360)}, n \in 0..MaxCount,
        o \in {Point(I(0), I(0)), Point(I(10), I(-7))}, ap \in BOOLEAN }

CircleConfigs ==
    { [type |-> "circle", radius |-> r, count |-> n, cellSize |-> I(20), origin |-> o,
       autoPreventOverlap |-> ap, minSpacing |-> I(2)] :
        r \in {I(5), I(100)}, n \in 0..MaxCount,
        o \in {Point(I(0), I(0)), Point(I(10), I(-7))}, ap \in BOOLEAN }

InitArc == InitGen(ArcConfigs \cup CircleConfigs)

CreateArc ==
    /\ pc = "input"
    /\ layout.type = "arc"
    /\ cells' = createArcLayout(layout)
    /\ pc' = "arc"
    /\ UNCHANGED <<layout, adjusted>>
    /\ UNCHANGED <<ctlVars, uiVars>>
    /\ UNCHANGED auxVars

CreateCircle ==
    /\ pc = "input"
    /\ layout.type = "circle"
    /\ cells' = createCircleLayout(layout)
    /\ pc' = "circle"
    /\ UNCHANGED <<layout, adjusted>>
    /\ UNCHANGED <<ctlVars, uiVars>>
    /\ UNCHANGED auxVars

NextArc == CreateArc \/ CreateCircle

SpecArc == InitArc /\ [][NextArc]_vars

(***************************************************************************)
(* core/collision-detection: section overlap detection.  A SectionBlock is *)
(* [id, origin, rows, cols, cellSize, gap]; an absent gap is held as 0     *)
(* (block.gap || 0).                                                       *)
(***************************************************************************)
calculateSectionBounds(block, minSectionSpacing) ==
    LET gap == block.gap
        totalWidth == Mul(I(block.cols), Add(block.cellSize, gap))
        totalHeight == Mul(I(block.rows), Add(block.cellSize, gap))
        spacing == minSectionSpacing
    IN  [x      |-> Sub(block.origin.x, Div(spacing, I(2))),
         y      |-> Sub(block.origin.y, Div(spacing, I(2))),
         width  |-> Add(totalWidth, spacing),
         height |-> Add(totalHeight, spacing)]

sectionsOverlap(block1, block2, minSectionSpacing) ==
    rectanglesIntersect(calculateSectionBounds(block1, minSectionSpacing),
                        calculateSectionBounds(block2, minSectionSpacing))

detectSectionOverlaps(blocks, minSectionSpacing) ==
    LET hit(p) == sectionsOverlap(blocks[p[1]], blocks[p[2]], minSectionSpacing)
        found == SelectSeq(PairsFrom(1, Len(blocks)), hit)
        overlappingPairs ==
            [k \in 1..Len(found) |->
                [section1 |-> blocks[found[k][1]],
                 section2 |-> blocks[found[k][2]],
                 section1Bounds |-> calculateSectionBounds(blocks[found[k][1]], minSectionSpacing),
                 section2Bounds |-> calculateSectionBounds(blocks[found[k][2]], minSectionSpacing)]]
    IN  [hasOverlaps |-> Len(overlappingPairs) > 0,
         overlappingPairs |-> overlappingPairs,
         overlapCount |-> Len(overlappingPairs)]

(***************************************************************************)
(* findNextAvailablePosition: the search offsets are [0,0] followed by the *)
(* square rings at distance searchStep, 2*searchStep, ... up to            *)
(* maxSearchDistance, each ring listed top edge, right edge, bottom edge,  *)
(* left edge; the first offset whose bounds meet no placed rectangle wins. *)
(***************************************************************************)
searchStep == 50

maxSearchDistance == 5000

\* the offsets the four inner loops push for one distance; [[0, 0]] comes first
ringOffsets(distance) ==
    IF distance = 0 THEN << <<0, 0>> >> ELSE
    LET m == (2 * distance) \div searchStep
        top    == [i \in 1..(m + 1) |-> <<-distance + (i - 1) * searchStep, -distance>>]
        right  == [i \in 1..m |-> <<distance, -distance + i * searchStep>>]
        bottom == [i \in 1..m |-> <<distance - i * searchStep, distance>>]
        left   == [i \in 1..(m - 1) |-> <<-distance, distance - i * searchStep>>]
    IN  top \o right \o bottom \o left

\* whether the rectangle of size [width, height] (spacing included) placed for the
\* position origin + [dx, dy] meets a placed rectangle
offsetOverlaps(origin, half, width, height, existingBounds, off) ==
    LET testBounds ==
            [x      |-> Sub(Add(origin.x, I(off[1])), half),
             y      |-> Sub(Add(origin.y, I(off[2])), half),
             width  |-> width,
             height |-> height]
    IN  \E k \in 1..Len(existingBounds) : rectanglesIntersect(testBounds, existingBounds[k])

\* the index of the first of the offsets `offs` that meets no placed rectangle, 0 if none
firstFree(origin, half, width, height, existingBounds, offs) ==
    LET free == {j \in 1..Len(offs) :
                    ~offsetOverlaps(origin, half, width, height, existingBounds, offs[j])}
    IN  IF free = {} THEN 0 ELSE CHOOSE j \in free : \A q \in free : j <= q

\* the position for the j-th offset of the ring at `distance`
ringPosition(origin, offs, j) ==
    Point(Add(origin.x, I(offs[j][1])), Add(origin.y, I(offs[j][2])))

\* the scan of the offsets from the ring at `distance` on, then the fallback
RECURSIVE searchFrom(_, _, _, _, _, _)
searchFrom(origin, half, width, height, existingBounds, distance) ==
    IF distance > maxSearchDistance
    THEN Point(I(maxSearchDistance), origin.y)
    ELSE LET j == firstFree(origin, half, width, height, existingBounds,
                            ringOffsets(distance))
         IN  IF j = 0
             THEN searchFrom(origin, half, width, height, existingBounds,
                             distance + searchStep)
             ELSE ringPosition(origin, ringOffsets(distance), j)

findNextAvailablePosition(block, existingBounds, minSpacing) ==
    LET bounds == calculateSectionBounds(block, I(0))
        half == Div(minSpacing, I(2))
        width == Add(bounds.width, minSpacing)
        height == Add(bounds.height, minSpacing)
    IN  IF ~offsetOverlaps(block.origin, half, width, height, existingBounds, <<0, 0>>)
        THEN Point(block.origin.x, block.origin.y)
        ELSE searchFrom(block.origin, half, width, height, existingBounds, searchStep)

(***************************************************************************)
(* compactLayoutStrategy                                                   *)
(***************************************************************************)
sectionArea(b) ==
    Mul(Mul(I(b.rows), Add(b.cellSize, b.gap)), Mul(I(b.cols), Add(b.cellSize, b.gap)))

\* Array.prototype.sort is stable: b goes behind every block that is not smaller
RECURSIVE insertByArea(_, _)
insertByArea(sorted, b) ==
    IF sorted = <<>> THEN <<b>>
    ELSE IF Lt(sectionArea(Head(sorted)), sectionArea(b)) THEN <<b>> \o sorted
    ELSE <<Head(sorted)>> \o insertByArea(Tail(sorted), b)

RECURSIVE sortFrom(_, _, _)
sortFrom(blocks, i, sorted) ==
    IF i > Len(blocks) THEN sorted
    ELSE sortFrom(blocks, i + 1, insertByArea(sorted, blocks[i]))

sortedByAreaDescending(blocks) == sortFrom(blocks, 1, <<>>)

RECURSIVE compactLoop(_, _, _, _, _)
compactLoop(sorted, i, adj, placed, minSpacing) ==
    IF i > Len(sorted) THEN adj
    ELSE LET block == sorted[i]
             position == findNextAvailablePosition(block, placed, minSpacing)
             moved == [block EXCEPT !.origin = position]
         IN  compactLoop(sorted, i + 1, Append(adj, moved),
                         Append(placed, calculateSectionBounds(moved, minSpacing)), minSpacing)

compactLayoutStrategy(blocks, minSpacing) ==
    IF Len(blocks) = 0 THEN <<>>
    ELSE compactLoop(sortedByAreaDescending(blocks), 1, <<>>, <<>>, minSpacing)

(***************************************************************************)
(* distributeLayoutStrategy                                                *)
(***************************************************************************)
RECURSIVE minOver(_, _, _)
minOver(values, i, acc) ==
    IF i > Len(values) THEN acc ELSE minOver(values, i + 1, MathMin(acc, values[i]))

\* Math.min(...values)
MathMinOf(values) == minOver(values, 1, Infinity(1))

RECURSIVE distributeHorizontal(_, _, _, _, _)
distributeHorizontal(blocks, i, currentX, startY, minSpacing) ==
    IF i > Len(blocks) THEN <<>>
    ELSE LET bounds == calculateSectionBounds(blocks[i], I(0))
             moved == [blocks[i] EXCEPT
                          !.origin = Point(Add(currentX, Div(minSpacing, I(2))), startY)]
         IN  <<moved>> \o distributeHorizontal(blocks, i + 1,
                              Add(currentX, Add(bounds.width, minSpacing)), startY, minSpacing)

RECURSIVE distributeVertical(_, _, _, _, _)
distributeVertical(blocks, i, currentY, startX, minSpacing) ==
    IF i > Len(blocks) THEN <<>>
    ELSE LET bounds == calculateSectionBounds(blocks[i], I(0))
             moved == [blocks[i] EXCEPT
                          !.origin = Point(startX, Add(currentY, Div(minSpacing, I(2))))]
         IN  <<moved>> \o distributeVertical(blocks, i + 1,
                              Add(currentY, Add(bounds.height, minSpacing)), startX, minSpacing)

\* the distribution that advances by the block's size only
distributeWithoutSpacing(blocks, minSpacing, direction) ==
    IF direction = "horizontal"
    THEN distributeHorizontal(blocks, 1, I(0),
                              MathMinOf([k \in 1..Len(blocks) |-> blocks[k].origin.y]), I(0))
    ELSE distributeVertical(blocks, 1, I(0),
                            MathMinOf([k \in 1..Len(blocks) |-> blocks[k].origin.x]), I(0))

distributeLayoutStrategy(blocks, minSpacing, direction) ==
    IF Len(blocks) = 0 THEN <<>>
    ELSE IF direction = "horizontal"
    THEN distributeHorizontal(blocks, 1, I(0),
                              MathMinOf([k \in 1..Len(blocks) |-> blocks[k].origin.y]),
                              minSpacing)
    ELSE distributeVertical(blocks, 1, I(0),
                            MathMinOf([k \in 1..Len(blocks) |-> blocks[k].origin.x]),
                            minSpacing)

(***************************************************************************)
(* preserveRelativeStrategy                                                *)
(***************************************************************************)
maxIterations == 100

\* adjusted.findIndex(b => b.id === id), 0 for -1
findIndex(blocks, id) ==
    LET hits == {k \in 1..Len(blocks) : blocks[k].id = id}
    IN  IF hits = {} THEN 0 ELSE CHOOSE k \in hits : \A q \in hits : k <= q

shiftX(adj, k, by) == [adj EXCEPT ![k].origin.x = Add(@, by)]

shiftY(adj, k, by) == [adj EXCEPT ![k].origin.y = Add(@, by)]

\* the nudge of one overlapping pair (the bounds are those of the detection)
nudgePair(adj, overlap, minSpacing) ==
    LET idx1 == findIndex(adj, overlap.section1.id)
        idx2 == findIndex(adj, overlap.section2.id)
        b1 == overlap.section1Bounds
        b2 == overlap.section2Bounds
        overlapX == MathMin(Sub(Add(b1.x, b1.width), b2.x), Sub(Add(b2.x, b2.width), b1.x))
        overlapY == MathMin(Sub(Add(b1.y, b1.height), b2.y), Sub(Add(b2.y, b2.height), b1.y))
    IN  IF idx1 = 0 \/ idx2 = 0 THEN adj
        ELSE IF Lt(overlapX, overlapY)
        THEN LET shift == Add(Div(overlapX, I(2)), minSpacing)
             IN  IF Lt(adj[idx1].origin.x, adj[idx2].origin.x)
                 THEN shiftX(shiftX(adj, idx1, Neg(shift)), idx2, shift)
                 ELSE shiftX(shiftX(adj, idx1, shift), idx2, Neg(shift))
        ELSE LET shift == Add(Div(overlapY, I(2)), minSpacing)
             IN  IF Lt(adj[idx1].origin.y, adj[idx2].origin.y)
                 THEN shiftY(shiftY(adj, idx1, Neg(shift)), idx2, shift)
                 ELSE shiftY(shiftY(adj, idx1, shift), idx2, Neg(shift))

\* for (const overlap of overlaps.overlappingPairs)
RECURSIVE nudgeLoop(_, _, _, _)
nudgeLoop(adj, pairs, k, minSpacing) ==
    IF k > Len(pairs) THEN adj
    ELSE nudgeLoop(nudgePair(adj, pairs[k], minSpacing), pairs, k + 1, minSpacing)

\* a loop without the iteration cap
relaxContinuesAlways(iter) == TRUE

\* while (iterations < maxIterations)
relaxContinues(iter) == iter < maxIterations

RECURSIVE relaxLoop(_, _, _)
relaxLoop(adj, iter, minSpacing) ==
    IF ~relaxContinues(iter) THEN adj
    ELSE LET overlaps == detectSectionOverlaps(adj, minSpacing)
         IN  IF ~overlaps.hasOverlaps THEN adj
             ELSE relaxLoop(nudgeLoop(adj, overlaps.overlappingPairs, 1, minSpacing),
                            iter + 1, minSpacing)

preserveRelativeStrategy(blocks, minSpacing) ==
    IF Len(blocks) = 0 THEN <<>> ELSE relaxLoop(blocks, 0, minSpacing)

(***************************************************************************)
(* autoAdjustSectionPositions                                              *)
(***************************************************************************)
applyStrategy(blocks, minSectionSpacing, cfg) ==
    CASE cfg.strategy = "compact" -> compactLayoutStrategy(blocks, minSectionSpacing)
      [] cfg.strategy = "distribute" ->
            distributeLayoutStrategy(blocks, minSectionSpacing, cfg.preferredDirection)
      [] cfg.strategy = "preserve-relative" ->
            preserveRelativeStrategy(blocks, minSectionSpacing)
      [] OTHER -> compactLayoutStrategy(blocks, minSectionSpacing)

\* the adjustment without the check that it is needed
autoAdjustAlways(blocks, minSectionSpacing, cfg) ==
    applyStrategy(blocks, minSectionSpacing, cfg)

autoAdjustSectionPositions(blocks, minSectionSpacing, cfg) ==
    IF Len(blocks) = 0 THEN <<>>
    ELSE IF ~detectSectionOverlaps(blocks, minSectionSpacing).hasOverlaps THEN blocks
    ELSE applyStrategy(blocks, minSectionSpacing, cfg)

(***************************************************************************)
(* core/layout-sections: createSectionsLayout.  A block carries no         *)
(* autoPreventOverlap or minSpacing, so its grid is generated with the     *)
(* defaults of createGridLayout (true, 2).                                 *)
(***************************************************************************)
sectionBlocks(cfg) ==
    IF /\ cfg.autoPreventSectionOverlaps
       /\ Len(cfg.blocks) > 1
       /\ detectSectionOverlaps(cfg.blocks, cfg.minSectionSpacing).hasOverlaps
    THEN autoAdjustSectionPositions(cfg.blocks, cfg.minSectionSpacing,
                                    [strategy |-> cfg.sectionLayoutStrategy,
                                     preferredDirection |-> cfg.sectionLayoutDirection])
    ELSE cfg.blocks

blockCells(block) ==
    LET blockGrid == createGridLayout(
            [type |-> "grid", rows |-> block.rows, cols |-> block.cols,
             cellSize |-> block.cellSize, gap |-> block.gap, origin |-> block.origin,
             autoPreventOverlap |-> TRUE, minSpacing |-> I(2)])
    IN  [k \in 1..Len(blockGrid) |->
            [blockGrid[k] EXCEPT !.id = [row |-> @.row, col |-> @.col, sectionId |-> block.id]]]

\* for (const block of blocks) ... allCells.push(cell)
RECURSIVE sectionsLoop(_, _)
sectionsLoop(blocks, i) ==
    IF i > Len(blocks) THEN <<>> ELSE blockCells(blocks[i]) \o sectionsLoop(blocks, i + 1)

\* all but the last block's cells
sectionCellsButLast(blocks) ==
    sectionsLoop(SubSeq(blocks, 1, Len(blocks) - 1), 1)

sectionCells(blocks) == sectionsLoop(blocks, 1)

\* const blocks = ...; for (const block of blocks) ...; return allCells
createSectionsLayout(cfg) == sectionCells(sectionBlocks(cfg))

(***************************************************************************)
(* The inputs of the sections specification.                               *)
(***************************************************************************)
MaxBlocks == 2

BlockIds == <<"A", "B", "C", "D">>

BlockShapes ==
    { [rows |-> 1, cols |-> 1, cellSize |-> I(10), gap |-> I(0)],
      [rows |-> 1, cols |-> 2, cellSize |-> I(20), gap |-> I(5)],
      [rows |-> 2, cols |-> 2, cellSize |-> I(10), gap |-> I(2)] }

BlockOrigins == {Point(I(0), I(0)), Point(I(15), I(5)), Point(I(0), I(100))}

Block(id, shape, origin) ==
    [id |-> id, origin |-> origin, rows |-> shape.rows, cols |-> shape.cols,
     cellSize |-> shape.cellSize, gap |-> shape.gap,
     numbering |-> [scheme |-> "row-col"], labelPrefix |-> id]

BlockLists ==
    UNION { { [k \in 1..n |-> Block(BlockIds[k], sh[k], og[k])] :
                sh \in [1..n -> BlockShapes], og \in [1..n -> BlockOrigins] } :
            n \in 1..MaxBlocks }

\* a small block inside a block wider than the search reaches, and beside it
WideBlockLists ==
    { <<Block("A", [rows |-> 1, cols |-> 1, cellSize |-> I(10), gap |-> I(0)], o),
        Block("B", [rows |-> 2, cols |-> 2, cellSize |-> I(6000), gap |-> I(0)],
              Point(I(0), I(0)))>> :
        o \in {Point(I(6000), I(6000)), Point(I(11990), I(0))} }

SectionOptions ==
    { [autoPreventSectionOverlaps |-> TRUE, sectionLayoutStrategy |-> "compact",
       sectionLayoutDirection |-> "horizontal"],
      [autoPreventSectionOverlaps |-> TRUE, sectionLayoutStrategy |-> "distribute",
       sectionLayoutDirection |-> "horizontal"],
      [autoPreventSectionOverlaps |-> TRUE, sectionLayoutStrategy |-> "distribute",
       sectionLayoutDirection |-> "vertical"],
      [autoPreventSectionOverlaps |-> TRUE, sectionLayoutStrategy |-> "preserve-relative",
       sectionLayoutDirection |-> "horizontal"],
      [autoPreventSectionOverlaps |-> FALSE, sectionLayoutStrategy |-> "compact",
       sectionLayoutDirection |-> "horizontal"] }

SectionsConfig(blocks, spacing, opt) ==
    [type |-> "sections", blocks |-> blocks, minSectionSpacing |-> spacing,
     autoPreventSectionOverlaps |-> opt.autoPreventSectionOverlaps,
     sectionLayoutStrategy |-> opt.sectionLayoutStrategy,
     sectionLayoutDirection |-> opt.sectionLayoutDirection]

SectionsConfigs ==
    { SectionsConfig(bs, sp, opt) :
        bs \in BlockLists, sp \in {I(0), I(20)}, opt \in SectionOptions }
    \cup
    { SectionsConfig(bs, I(20), opt) :
        bs \in WideBlockLists,
        opt \in {o \in SectionOptions : o.sectionLayoutStrategy = "compact"} }

InitSections == InitGen(SectionsConfigs)

\* createSectionsLayout(layout); adjusted keeps the blocks it generated from
CreateSections ==
    /\ pc = "input"
    /\ layout.type = "sections"
    /\ adjusted' = sectionBlocks(layout)
    /\ cells' = createSectionsLayout(layout)
    /\ pc' = "sections"
    /\ UNCHANGED layout
    /\ UNCHANGED <<ctlVars, uiVars>>
    /\ UNCHANGED auxVars

\* autoAdjustSectionPositions(layout.blocks, layout.minSectionSpacing, {strategy, preferredDirection})
AutoAdjust ==
    /\ pc = "input"
    /\ layout.type = "sections"
    /\ layout.autoPreventSectionOverlaps
    /\ adjusted' = autoAdjustSectionPositions(layout.blocks, layout.minSectionSpacing,
                        [strategy |-> layout.sectionLayoutStrategy,
                         preferredDirection |-> layout.sectionLayoutDirection])
    /\ pc' = "adjusted"
    /\ UNCHANGED <<layout, cells>>
    /\ UNCHANGED <<ctlVars, uiVars>>
    /\ UNCHANGED auxVars

NextSections == CreateSections \/ AutoAdjust

SpecSections == InitSections /\ [][NextSections]_vars

(***************************************************************************)
(* autoAdjustSectionPositions step by step: one state per iteration of the *)
(* while loop of preserveRelativeStrategy and per ring of the search of    *)
(* findNextAvailablePosition (ring 0 is the offset [0, 0]).  layout holds  *)
(* the arguments; pc is "input", "relax", "compact" or "returned".         *)
(***************************************************************************)
AdjustArguments ==
    { SectionsConfig(bs, sp, opt) :
        bs \in BlockLists \cup {<<>>}, sp \in {I(0), I(20), I(-4)},
        opt \in {o \in SectionOptions : o.autoPreventSectionOverlaps} }
    \cup
    { SectionsConfig(bs, I(20), opt) :
        bs \in WideBlockLists,
        opt \in {o \in SectionOptions : o.sectionLayoutStrategy = "compact"
                                         /\ o.autoPreventSectionOverlaps} }

InitAdjust == InitGen(AdjustArguments)

hasOverlaps(blocks, minSpacing) == detectSectionOverlaps(blocks, minSpacing).hasOverlaps

\* if (blocks.length === 0) return []; if (!initialOverlaps.hasOverlaps) return blocks
AdjustNotNeeded ==
    /\ pc = "input"
    /\ Len(layout.blocks) = 0 \/ ~hasOverlaps(layout.blocks, layout.minSectionSpacing)
    /\ adjusted' = layout.blocks
    /\ callerBlocks' = layout.blocks
    /\ sharedOrigins' = DOMAIN layout.blocks
    /\ pc' = "returned"
    /\ UNCHANGED <<layout, cells, fnVars, loopVars>>
    /\ UNCHANGED <<ctlVars, uiVars>>

AdjustNeeded ==
    /\ pc = "input"
    /\ Len(layout.blocks) > 0
    /\ hasOverlaps(layout.blocks, layout.minSectionSpacing)

\* case 'distribute'
DistributeCall ==
    /\ AdjustNeeded
    /\ layout.sectionLayoutStrategy = "distribute"
    /\ adjusted' = distributeLayoutStrategy(layout.blocks, layout.minSectionSpacing,
                                            layout.sectionLayoutDirection)
    /\ callerBlocks' = layout.blocks
    /\ sharedOrigins' = {}
    /\ pc' = "returned"
    /\ UNCHANGED <<layout, cells, fnVars, loopVars>>
    /\ UNCHANGED <<ctlVars, uiVars>>

\* blocks.map(block => ({ ...block })): every origin is still the object of the block passed
sharedAfterSpread(blocks) == DOMAIN blocks

\* blocks.map(block => ({ ...block, origin: { ...block.origin } })): no origin is shared
sharedAfterCopy(blocks) == {}

\* case 'preserve-relative': let adjusted = blocks.map(...); let iterations = 0
PreserveBegin ==
    /\ AdjustNeeded
    /\ layout.sectionLayoutStrategy = "preserve-relative"
    /\ adjusted' = layout.blocks
    /\ callerBlocks' = layout.blocks
    /\ sharedOrigins' = sharedAfterCopy(layout.blocks)
    /\ iterations' = 0
    /\ pc' = "relax"
    /\ UNCHANGED <<layout, cells, fnVars, searchDistance, sortedBlocks, placedBounds>>
    /\ UNCHANGED <<ctlVars, uiVars>>

\* one iteration of the while loop that does not break
RelaxStep ==
    /\ pc = "relax"
    /\ relaxContinues(iterations)
    /\ hasOverlaps(adjusted, layout.minSectionSpacing)
    /\ adjusted' = nudgeLoop(adjusted,
                       detectSectionOverlaps(adjusted, layout.minSectionSpacing).overlappingPairs,
                       1, layout.minSectionSpacing)
    /\ iterations' = iterations + 1
    /\ callerBlocks' = [k \in DOMAIN callerBlocks |->
                           IF k \in sharedOrigins
                           THEN [callerBlocks[k] EXCEPT !.origin = adjusted'[k].origin]
                           ELSE callerBlocks[k]]
    /\ UNCHANGED <<layout, pc, cells, fnVars, searchDistance, sortedBlocks, placedBounds,
                   sharedOrigins>>
    /\ UNCHANGED <<ctlVars, uiVars>>

\* the loop condition fails, or the break; return adjusted
RelaxExit ==
    /\ pc = "relax"
    /\ ~relaxContinues(iterations) \/ ~hasOverlaps(adjusted, layout.minSectionSpacing)
    /\ pc' = "returned"
    /\ UNCHANGED <<layout, cells, adjusted, fnVars, loopVars, aliasVars>>
    /\ UNCHANGED <<ctlVars, uiVars>>

\* case 'compact' (and default): adjusted = [], placed = [], sorted = [...blocks].sort(...)
CompactBegin ==
    /\ AdjustNeeded
    /\ layout.sectionLayoutStrategy \notin {"distribute", "preserve-relative"}
    /\ sortedBlocks' = sortedByAreaDescending(layout.blocks)
    /\ adjusted' = <<>>
    /\ placedBounds' = <<>>
    /\ searchDistance' = 0
    /\ callerBlocks' = layout.blocks
    /\ sharedOrigins' = {}
    /\ pc' = "compact"
    /\ UNCHANGED <<layout, cells, fnVars, iterations>>
    /\ UNCHANGED <<ctlVars, uiVars>>

\* adjusted.push({...block, origin: position}); placed.push(...)
place(position) ==
    LET moved == [sortedBlocks[Len(adjusted) + 1] EXCEPT !.origin = position]
    IN  /\ adjusted' = Append(adjusted, moved)
        /\ placedBounds' = Append(placedBounds,
                                  calculateSectionBounds(moved, layout.minSectionSpacing))
        /\ searchDistance' = 0

\* the offsets of one ring are tried for the block being placed
ExamineRing ==
    /\ pc = "compact"
    /\ Len(adjusted) < Len(sortedBlocks)
    /\ searchDistance <= maxSearchDistance
    /\ LET block == sortedBlocks[Len(adjusted) + 1]
           bounds == calculateSectionBounds(block, I(0))
           offs == ringOffsets(searchDistance)
           j == firstFree(block.origin, Div(layout.minSectionSpacing, I(2)),
                          Add(bounds.width, layout.minSectionSpacing),
                          Add(bounds.height, layout.minSectionSpacing),
                          placedBounds, offs)
       IN  IF j = 0
           THEN /\ searchDistance' = searchDistance + searchStep
                /\ UNCHANGED <<adjusted, placedBounds>>
           ELSE place(ringPosition(block.origin, offs, j))
    /\ UNCHANGED <<layout, pc, cells, fnVars, iterations, sortedBlocks, aliasVars>>
    /\ UNCHANGED <<ctlVars, uiVars>>

\* no offset was free: return { x: maxSearchDistance, y: block.origin.y }
Fallback ==
    /\ pc = "compact"
    /\ Len(adjusted) < Len(sortedBlocks)
    /\ searchDistance > maxSearchDistance
    /\ place(Point(I(maxSearchDistance), sortedBlocks[Len(adjusted) + 1].origin.y))
    /\ UNCHANGED <<layout, pc, cells, fnVars, iterations, sortedBlocks, aliasVars>>
    /\ UNCHANGED <<ctlVars, uiVars>>

\* the for loop over sortedBlocks is over: return adjusted
CompactExit ==
    /\ pc = "compact"
    /\ Len(adjusted) = Len(sortedBlocks)
    /\ pc' = "returned"
    /\ UNCHANGED <<layout, cells, adjusted, fnVars, loopVars, aliasVars>>
    /\ UNCHANGED <<ctlVars, uiVars>>

NextAdjust ==
    \/ AdjustNotNeeded
    \/ DistributeCall
    \/ PreserveBegin
    \/ RelaxStep
    \/ RelaxExit
    \/ CompactBegin
    \/ ExamineRing
    \/ Fallback
    \/ CompactExit

SpecAdjust == InitAdjust /\ [][NextAdjust]_vars

\* the call has a next step to take: the guards of the steps, by position
Runnable ==
    \/ /\ pc = "input"
       /\ \/ Len(layout.blocks) = 0
          \/ ~hasOverlaps(layout.blocks, layout.minSectionSpacing)
          \/ layout.sectionLayoutStrategy = "distribute"
          \/ layout.sectionLayoutStrategy = "preserve-relative"
          \/ layout.sectionLayoutStrategy \notin {"distribute", "preserve-relative"}
    \/ /\ pc = "relax"
       /\ \/ relaxContinues(iterations) /\ hasOverlaps(adjusted, layout.minSectionSpacing)
          \/ ~relaxContinues(iterations)
          \/ ~hasOverlaps(adjusted, layout.minSectionSpacing)
    \/ /\ pc = "compact"
       /\ \/ Len(adjusted) < Len(sortedBlocks) /\ searchDistance <= maxSearchDistance
          \/ Len(adjusted) < Len(sortedBlocks) /\ searchDistance > maxSearchDistance
          \/ Len(adjusted) = Len(sortedBlocks)

(***************************************************************************)
(* core/math: keyboard navigation.  A cell of the cells array is named by  *)
(* its position in the array, which stands for the identity of the object  *)
(* (cell === currentCell); 0 is null.  Distances are compared by their     *)
(* squares: Math.sqrt is increasing.                                       *)
(***************************************************************************)
MathAbs(a) == IF a.n < 0 THEN Neg(a) ELSE a

Directions == {"up", "down", "left", "right"}

\* if (rtl && (direction === 'left' || direction === 'right')) ...
adjustDirection(direction, rtl) ==
    IF rtl /\ direction \in {"left", "right"}
    THEN (IF direction = "left" THEN "right" ELSE "left")
    ELSE direction

\* the direction test on the sign of the displacement alone
isInDirectionHalfPlane(adjustedDirection, dx, dy) ==
    CASE adjustedDirection = "up" -> Lt(dy, I(-5))
      [] adjustedDirection = "down" -> Lt(I(5), dy)
      [] adjustedDirection = "left" -> Lt(dx, I(-5))
      [] adjustedDirection = "right" -> Lt(I(5), dx)
      [] OTHER -> FALSE

isInDirection(adjustedDirection, dx, dy) ==
    CASE adjustedDirection = "up" -> Lt(dy, I(-5)) /\ Lt(MathAbs(dx), MathAbs(dy))
      [] adjustedDirection = "down" -> Lt(I(5), dy) /\ Lt(MathAbs(dx), MathAbs(dy))
      [] adjustedDirection = "left" -> Lt(dx, I(-5)) /\ Lt(MathAbs(dy), MathAbs(dx))
      [] adjustedDirection = "right" -> Lt(I(5), dx) /\ Lt(MathAbs(dy), MathAbs(dx))
      [] OTHER -> FALSE

\* for (const cell of cells): bestCandidate and the square of bestDistance
RECURSIVE neighborLoop(_, _, _, _, _, _)
neighborLoop(cs, current, adjustedDirection, j, bestCandidate, bestSquare) ==
    IF j > Len(cs) THEN bestCandidate
    ELSE IF j = current
    THEN neighborLoop(cs, current, adjustedDirection, j + 1, bestCandidate, bestSquare)
    ELSE LET dx == Sub(cs[j].x, cs[current].x)
             dy == Sub(cs[j].y, cs[current].y)
             square == Add(Mul(dx, dx), Mul(dy, dy))
         IN  IF isInDirection(adjustedDirection, dx, dy) /\ Lt(square, bestSquare)
             THEN neighborLoop(cs, current, adjustedDirection, j + 1, j, square)
             ELSE neighborLoop(cs, current, adjustedDirection, j + 1, bestCandidate, bestSquare)

findNeighborInDirection(cs, current, direction, rtl) ==
    neighborLoop(cs, current, adjustDirection(direction, rtl), 1, 0, Infinity(1))

\* id.field === value, where a missing field is undefined
idFieldIs(cell, field, value) == field \in DOMAIN cell.id /\ cell.id[field] = value

\* a.id.sectionId === b.id.sectionId
sameSectionId(a, b) ==
    IF "sectionId" \in DOMAIN a.id
    THEN idFieldIs(b, "sectionId", a.id.sectionId)
    ELSE "sectionId" \notin DOMAIN b.id

\* cells.find(predicate) || null, as a position: the first of the matching positions
find(hits) == IF hits = {} THEN 0 ELSE CHOOSE j \in hits : \A q \in hits : j <= q

\* the neighbour search that exchanges left and right whether or not rtl is set
findGridNeighborMirrored(cs, current, direction, rtl) ==
    LET currentCell == cs[current]
        adjustedDirection == adjustDirection(direction, TRUE)
        targetRow == currentCell.id.row + (CASE adjustedDirection = "up" -> -1
                                             [] adjustedDirection = "down" -> 1
                                             [] OTHER -> 0)
        targetCol == currentCell.id.col + (CASE adjustedDirection = "left" -> -1
                                             [] adjustedDirection = "right" -> 1
                                             [] OTHER -> 0)
        matches(cell) == /\ idFieldIs(cell, "row", targetRow)
                         /\ idFieldIs(cell, "col", targetCol)
                         /\ sameSectionId(cell, currentCell)
    IN  find({j \in 1..Len(cs) : matches(cs[j])})

findGridNeighbor(cs, current, direction, rtl) ==
    LET currentCell == cs[current]
    IN  IF "row" \notin DOMAIN currentCell.id \/ "col" \notin DOMAIN currentCell.id
        THEN findNeighborInDirection(cs, current, direction, rtl)
        ELSE LET adjustedDirection == adjustDirection(direction, rtl)
                 targetRow == currentCell.id.row + (CASE adjustedDirection = "up" -> -1
                                                      [] adjustedDirection = "down" -> 1
                                                      [] OTHER -> 0)
                 targetCol == currentCell.id.col + (CASE adjustedDirection = "left" -> -1
                                                      [] adjustedDirection = "right" -> 1
                                                      [] OTHER -> 0)
                 matches(cell) == /\ idFieldIs(cell, "row", targetRow)
                                  /\ idFieldIs(cell, "col", targetCol)
                                  /\ sameSectionId(cell, currentCell)
             IN  find({j \in 1..Len(cs) : matches(cs[j])})

\* the neighbour search on a ring: the index is taken modulo the number of cells
findAngularNeighborAround(cs, current, direction, rtl) ==
    LET currentCell == cs[current]
        adjustedDirection == IF rtl THEN (IF direction = "left" THEN "right" ELSE "left")
                             ELSE direction
        delta == IF adjustedDirection = "left" THEN -1 ELSE 1
        targetIndex == (currentCell.id.index + delta) % Len(cs)
        matches(cell) == idFieldIs(cell, "index", targetIndex)
    IN  find({j \in 1..Len(cs) : matches(cs[j])})

\* _centerX and _centerY are not read
findAngularNeighbor(cs, current, direction, rtl) ==
    LET currentCell == cs[current]
    IN  IF "index" \notin DOMAIN currentCell.id
        THEN findNeighborInDirection(cs, current, direction, rtl)
        ELSE IF direction \in {"up", "down"}
        THEN findNeighborInDirection(cs, current, direction, rtl)
        ELSE LET adjustedDirection ==
                     IF rtl THEN (IF direction = "left" THEN "right" ELSE "left")
                     ELSE direction
                 delta == IF adjustedDirection = "left" THEN -1 ELSE 1
                 targetIndex == currentCell.id.index + delta
                 matches(cell) == idFieldIs(cell, "index", targetIndex)
             IN  find({j \in 1..Len(cs) : matches(cs[j])})

(***************************************************************************)
(* Calls of the pure functions of the library: args holds the arguments    *)
(* of one call, result what it returned.                                   *)
(***************************************************************************)
InitCall(argumentSets) ==
    /\ config = [minZoom |-> Q(1, 10), maxZoom |-> I(5), zoomSpeed |-> Q(1, 10),
                 initialZoom |-> I(1), initialPanX |-> I(0), initialPanY |-> I(0)]
    /\ zoom = config.initialZoom
    /\ panX = config.initialPanX
    /\ panY = config.initialPanY
    /\ isPanning = FALSE
    /\ panStartRef = [x |-> I(0), y |-> I(0), panX |-> I(0), panY |-> I(0)]
    /\ view = Snapshot(config.initialZoom, config.initialPanX, config.initialPanY, FALSE)
    /\ calls = 0
    /\ layout = NoLayout
    /\ pc = "input"
    /\ cells = <<>>
    /\ adjusted = <<>>
    /\ iterations = 0
    /\ searchDistance = 0
    /\ sortedBlocks = <<>>
    /\ placedBounds = <<>>
    /\ args \in argumentSets
    /\ result = NoArgs
    /\ InitUi
    /\ InitAlias

\* the call returns r
Return(r) ==
    /\ pc = "input"
    /\ pc' = "called"
    /\ result' = r
    /\ UNCHANGED <<args, layout, cells, adjusted, loopVars, aliasVars>>
    /\ UNCHANGED <<ctlVars, uiVars>>

\* a === b
StrictEquals(a, b) == ~IsNaN(a) /\ ~IsNaN(b) /\ a = b

(***************************************************************************)
(* Calls of rectanglesIntersect, on both orders of a pair of rectangles.   *)
(***************************************************************************)
RectangleCorners == {I(0), I(5), I(10), NaN}

RectangleSizes == {I(-5), I(0), I(5), I(10), Infinity(1)}

Rectangles ==
    { [x |-> x, y |-> y, width |-> w, height |-> h] :
        x \in RectangleCorners, y \in {I(0), I(5)}, w \in RectangleSizes,
        h \in {I(0), I(5), I(10)} }

InitRectangles ==
    InitCall({ [fn |-> "rectanglesIntersect", a |-> a, b |-> b] :
                 a \in Rectangles, b \in Rectangles })

IntersectCall ==
    /\ args.fn = "rectanglesIntersect"
    /\ Return([ab |-> rectanglesIntersect(args.a, args.b),
               ba |-> rectanglesIntersect(args.b, args.a)])

NextRectangles == IntersectCall

SpecRectangles == InitRectangles /\ [][NextRectangles]_vars

(***************************************************************************)
(* Calls of calculateMinimumArcRadius for seatCount and seatCount + 1.     *)
(***************************************************************************)
MaxSeatCount == 6

RadiusArguments ==
    { [fn |-> "calculateMinimumArcRadius", seatCount |-> n, cellWidth |-> w,
       sweepDegrees |-> sw, minSpacing |-> ms] :
        n \in 1..MaxSeatCount, w \in {I(10), I(20), I(40)},
        sw \in {I(30), I(90), I(180), I(270), I(300), I(360)},
        ms \in {I(0), I(2), I(10)} }

InitRadius == InitCall(RadiusArguments)

RadiusCall ==
    /\ args.fn = "calculateMinimumArcRadius"
    /\ Return([radius |-> calculateMinimumArcRadius(args.seatCount, args.cellWidth,
                                                    args.sweepDegrees, args.minSpacing),
               radiusOfOneMore |-> calculateMinimumArcRadius(args.seatCount + 1, args.cellWidth,
                                                    args.sweepDegrees, args.minSpacing)])

NextRadius == RadiusCall

SpecRadius == InitRadius /\ [][NextRadius]_vars

(***************************************************************************)
(* Calls of findGridNeighbor and findAngularNeighbor on generated layouts: *)
(* a grid, two sections, an arc and a circle.  result.found is the call's  *)
(* answer and result.opposite that of the call with the opposite           *)
(* direction and the other rtl.                                            *)
(***************************************************************************)
NavigationLayouts ==
    { createGridLayout([type |-> "grid", rows |-> 3, cols |-> 3, cellSize |-> I(20),
                        gap |-> I(5), origin |-> Point(I(0), I(0)),
                        autoPreventOverlap |-> TRUE, minSpacing |-> I(2)]),
      sectionCells(<<Block("A", [rows |-> 2, cols |-> 2, cellSize |-> I(10), gap |-> I(2)],
                           Point(I(0), I(0))),
                     Block("B", [rows |-> 1, cols |-> 2, cellSize |-> I(20), gap |-> I(5)],
                           Point(I(0), I(100)))>>),
      createArcLayout([type |-> "arc", radius |-> I(100), sweepDegrees |-> I(180),
                       count |-> 5, cellSize |-> I(20), origin |-> Point(I(0), I(0)),
                       autoPreventOverlap |-> TRUE, minSpacing |-> I(2)]),
      createCircleLayout([type |-> "circle", radius |-> I(100), count |-> 4,
                          cellSize |-> I(20), origin |-> Point(I(0), I(0)),
                          autoPreventOverlap |-> TRUE, minSpacing |-> I(2)]) }

NavigationArguments ==
    UNION { { [fn |-> f, cells |-> cs, current |-> k, direction |-> d, rtl |-> r] :
                f \in {"findGridNeighbor", "findAngularNeighbor"},
                k \in 1..Len(cs), d \in Directions, r \in BOOLEAN } :
            cs \in NavigationLayouts }

oppositeDirection(d) ==
    CASE d = "left" -> "right" [] d = "right" -> "left" [] d = "up" -> "down" [] OTHER -> "up"

InitNavigation == InitCall(NavigationArguments)

GridNeighborCall ==
    /\ args.fn = "findGridNeighbor"
    /\ Return([found |-> findGridNeighbor(args.cells, args.current, args.direction, args.rtl),
               opposite |-> findGridNeighbor(args.cells, args.current,
                                             oppositeDirection(args.direction), ~args.rtl)])

AngularNeighborCall ==
    /\ args.fn = "findAngularNeighbor"
    /\ Return([found |-> findAngularNeighbor(args.cells, args.current, args.direction, args.rtl),
               opposite |-> findAngularNeighbor(args.cells, args.current,
                                                oppositeDirection(args.direction), ~args.rtl)])

NextNavigation == GridNeighborCall \/ AngularNeighborCall

SpecNavigation == InitNavigation /\ [][NextNavigation]_vars

(***************************************************************************)
(* core/numbering: labels.  A string is the sequence of its characters     *)
(* ("A11" is <<"A", "1", "1">>), an optional value is the set of at most   *)
(* one value, and a template literal is a concatenation.  Rows, columns    *)
(* and start indices are integers, rows and columns not negative.          *)
(***************************************************************************)
undefined == {}

Some(v) == {v}

ValueOf(o) == CHOOSE v \in o : TRUE

\* o ?? d
orElse(o, d) == IF o = undefined THEN d ELSE ValueOf(o)

\* config?.f
optionalField(o, f) == IF o = undefined THEN undefined ELSE ValueOf(o)[f]

\* a string in a condition: undefined and "" are falsy
truthy(o) == o # undefined /\ ValueOf(o) # <<>>

DecimalDigits == <<"0", "1", "2", "3", "4", "5", "6", "7", "8", "9">>

DEFAULT_ALPHABET ==
    <<"A", "B", "C", "D", "E", "F", "G", "H", "I", "J", "K", "L", "M",
      "N", "O", "P", "Q", "R", "S", "T", "U", "V", "W", "X", "Y", "Z">>

RECURSIVE digitsOf(_)
digitsOf(n) ==
    IF n < 10 THEN <<DecimalDigits[n + 1]>>
    ELSE digitsOf(n \div 10) \o <<DecimalDigits[(n % 10) + 1]>>

\* `${n}` of an integer
numberToString(n) == IF n < 0 THEN <<"-">> \o digitsOf(-n) ELSE digitsOf(n)

\* the do-while loop of getAlphaLabel
RECURSIVE alphaLoop(_, _)
alphaLoop(label, num) ==
    LET next == <<DEFAULT_ALPHABET[(num % 26) + 1]>> \o label
        rest == (num \div 26) - 1
    IN  IF rest >= 0 THEN alphaLoop(next, rest) ELSE next

getAlphaLabel(index) == alphaLoop(<<>>, index)

\* customRowLabels[row]
rowLabelAt(customRowLabels, row) ==
    IF row + 1 \in DOMAIN customRowLabels THEN Some(customRowLabels[row + 1]) ELSE undefined

generateRowColLabel(row, col, startIndex, colStart, labelPrefix, customRowLabels) ==
    LET rowLabel ==
            IF customRowLabels # undefined
            THEN IF truthy(rowLabelAt(ValueOf(customRowLabels), row))
                 THEN ValueOf(rowLabelAt(ValueOf(customRowLabels), row))
                 ELSE numberToString(row + startIndex)
            ELSE IF truthy(labelPrefix)
                 THEN ValueOf(labelPrefix) \o numberToString(row + startIndex)
                 ELSE getAlphaLabel(row)
    IN  rowLabel \o numberToString(col + colStart)

generateSnakeLabel(row, col, startIndex, labelPrefix) ==
    LET index == row * 100 + col + startIndex
    IN  IF truthy(labelPrefix) THEN ValueOf(labelPrefix) \o numberToString(index)
        ELSE numberToString(index)

generateIndexLabel(row, col, startIndex) == numberToString(row * 100 + col + startIndex)

generateAlphaRowsLabel(row, col, colStart, customRowLabels) ==
    LET rowLabel ==
            IF customRowLabels # undefined /\ truthy(rowLabelAt(ValueOf(customRowLabels), row))
            THEN ValueOf(rowLabelAt(ValueOf(customRowLabels), row))
            ELSE getAlphaLabel(row)
    IN  rowLabel \o numberToString(col + colStart)

generateLabel(row, col, numbering, labelPrefix) ==
    LET scheme     == orElse(optionalField(numbering, "scheme"), "row-col")
        startIndex == orElse(optionalField(numbering, "startIndex"), 1)
        colStart   == orElse(optionalField(numbering, "colStart"), 1)
    IN  CASE scheme = "row-col" ->
                generateRowColLabel(row, col, startIndex, colStart, labelPrefix,
                                    optionalField(numbering, "rowLabels"))
          [] scheme = "snake" -> generateSnakeLabel(row, col, startIndex, labelPrefix)
          [] scheme = "index" -> generateIndexLabel(row, col, startIndex)
          [] scheme = "alpha-rows" ->
                generateAlphaRowsLabel(row, col, colStart, optionalField(numbering, "rowLabels"))
          [] OTHER -> numberToString(row + startIndex) \o <<"-">> \o numberToString(col + colStart)

\* the column count is left out of the odd rows' index
generateSnakeLabelWithColsForward(row, col, cols, startIndex, labelPrefix) ==
    LET index == row * cols + col + startIndex
    IN  IF truthy(labelPrefix) THEN ValueOf(labelPrefix) \o numberToString(index)
        ELSE numberToString(index)

generateSnakeLabelWithCols(row, col, cols, startIndex, labelPrefix) ==
    LET index == IF row % 2 = 0
                 THEN row * cols + col + startIndex
                 ELSE row * cols + (cols - 1 - col) + startIndex
    IN  IF truthy(labelPrefix) THEN ValueOf(labelPrefix) \o numberToString(index)
        ELSE numberToString(index)

generateIndexLabelWithCols(row, col, cols, startIndex) ==
    numberToString(row * cols + col + startIndex)

\* the label createGridLayout gives the cell at (row, col)
gridLabel(cfg, row, col) ==
    LET startIndex == orElse(optionalField(cfg.numbering, "startIndex"), 1)
        scheme     == orElse(optionalField(cfg.numbering, "scheme"), "row-col")
    IN  IF scheme = "snake"
        THEN generateSnakeLabelWithCols(row, col, cfg.cols, startIndex, cfg.labelPrefix)
        ELSE IF scheme = "index"
        THEN generateIndexLabelWithCols(row, col, cfg.cols, startIndex)
        ELSE generateLabel(row, col, cfg.numbering, cfg.labelPrefix)

\* the labels of the cells of createGridLayout, in the order of its loops
gridLabels(cfg) ==
    [i \in 1..(cfg.rows * cfg.cols) |->
        gridLabel(cfg, (i - 1) \div cfg.cols, (i - 1) % cfg.cols)]

(***************************************************************************)
(* Calls of generateLabel.                                                 *)
(***************************************************************************)
LabelRows == {0, 1, 2, 25, 26, 27, 701, 702}

LabelCols == {0, 2, 9}

LabelPrefixes == {undefined, Some(<<>>), Some(<<"A">>), Some(<<"R", "o", "w">>)}

RowLabelLists == {undefined, Some(<<>>), Some(<< <<"V", "I", "P">>, <<>>, <<"B">> >>)}

NumberingConfigs ==
    {undefined} \cup
    { Some([scheme |-> s, startIndex |-> si, colStart |-> c0, rowLabels |-> rl]) :
        s \in {undefined, Some("row-col"), Some("snake"), Some("index"), Some("alpha-rows")},
        si \in {undefined, Some(0), Some(1), Some(5)},
        c0 \in {undefined, Some(0), Some(1), Some(10)},
        rl \in RowLabelLists }

LabelArguments ==
    { [fn |-> "generateLabel", row |-> r, col |-> c, config |-> n, labelPrefix |-> p] :
        r \in LabelRows, c \in LabelCols, n \in NumberingConfigs, p \in LabelPrefixes }

InitLabel == InitCall(LabelArguments)

LabelCall ==
    /\ args.fn = "generateLabel"
    /\ Return(generateLabel(args.row, args.col, args.config, args.labelPrefix))

NextLabel == LabelCall

SpecLabel == InitLabel /\ [][NextLabel]_vars

(***************************************************************************)
(* Calls of createGridLayout, for the labels of its cells.                 *)
(***************************************************************************)
GridNumberings ==
    {undefined} \cup
    { Some([scheme |-> s, startIndex |-> si, colStart |-> undefined, rowLabels |-> undefined]) :
        s \in {undefined, Some("row-col"), Some("snake"), Some("index")},
        si \in {undefined, Some(0), Some(1), Some(-3), Some(98)} }

LabelledGrids ==
    { [fn |-> "createGridLayout", rows |-> r, cols |-> c, numbering |-> n, labelPrefix |-> p] :
        r \in 0..(MaxRows + 1), c \in 0..(MaxCols + 1), n \in GridNumberings,
        p \in {undefined, Some(<<"S">>)} }

InitGridLabels == InitCall(LabelledGrids)

GridLabelsCall ==
    /\ args.fn = "createGridLayout"
    /\ Return(gridLabels(args))

NextGridLabels == GridLabelsCall

SpecGridLabels == InitGridLabels /\ [][NextGridLabels]_vars

(***************************************************************************)
(* Calls of getAlphaLabel, one action for each execution of the body of    *)
(* its do-while loop.  result holds the locals label and num, and the      *)
(* label of a second index for comparison.                                 *)
(***************************************************************************)
MaxAlphaIndex == 730

AlphaSamples == {0, 1, 25, 26, 27, 51, 52, 675, 676, 701, 702, 703}

AlphaArguments ==
    { [fn |-> "getAlphaLabel", index |-> i, other |-> o] :
        i \in 0..MaxAlphaIndex, o \in AlphaSamples }

InitAlpha == InitCall(AlphaArguments)

\* while (num > 0)
alphaContinuesPositive(num) == num > 0

\* while (num >= 0)
alphaContinues(num) == num >= 0

\* num = Math.floor(num / 26) - 1
alphaRest(num) == (num \div 26) - 1

\* let label = ''; let num = index;
AlphaBegin ==
    /\ pc = "input"
    /\ args.fn = "getAlphaLabel"
    /\ pc' = "alpha"
    /\ result' = [label |-> <<>>, num |-> args.index, other |-> getAlphaLabel(args.other)]
    /\ UNCHANGED <<args, layout, cells, adjusted, loopVars, aliasVars>>
    /\ UNCHANGED <<ctlVars, uiVars>>

\* do { ... } while (num >= 0); return label
AlphaIterate ==
    /\ pc = "alpha"
    /\ result' = [result EXCEPT !.label = <<DEFAULT_ALPHABET[(result.num % 26) + 1]>> \o @,
                                !.num = alphaRest(@)]
    /\ pc' = IF alphaContinues(result'.num) THEN "alpha" ELSE "called"
    /\ UNCHANGED <<args, layout, cells, adjusted, loopVars, aliasVars>>
    /\ UNCHANGED <<ctlVars, uiVars>>

NextAlpha == AlphaBegin \/ AlphaIterate

SpecAlpha == InitAlpha /\ [][NextAlpha]_vars

(***************************************************************************)
(* ZonetrixCanvas: selection by clicks.  Labels are plain strings here.    *)
(* handleCellClick is reached only through the click and key handlers of   *)
(* a rendered cell, discrete events after which React renders before the   *)
(* next event is handled: the selection the handler reads is the current   *)
(* one.  props.parent says what the owner of a controlled value does with  *)
(* onSelectionChange: "follows" passes the new selection back as value.    *)
(***************************************************************************)
ClickCells ==
    { [label |-> l, status |-> st] :
        l \in {"A1", "A2", "B1"}, st \in {"available", "reserved"} }
    \cup {[label |-> "", status |-> "available"]}

DefaultValues == {<<>>, <<"A1", "A2">>, <<"A1", "A1">>, <<"Z9">>}

CanvasProps ==
    { [value |-> v, defaultValue |-> d, selectablePredicate |-> sp,
       onSelectionChange |-> osc, onCellClick |-> occ, parent |-> pa] :
        v \in {undefined, Some(<<>>), Some(<<"A2", "B1">>)}, d \in DefaultValues,
        sp \in {undefined, Some({"A1", "A2", "B1", ""}), Some({"A1"})},
        osc \in BOOLEAN, occ \in BOOLEAN, pa \in {"follows", "ignores"} }

InitCanvas ==
    /\ config = [minZoom |-> Q(1, 10), maxZoom |-> I(5), zoomSpeed |-> Q(1, 10),
                 initialZoom |-> I(1), initialPanX |-> I(0), initialPanY |-> I(0)]
    /\ zoom = config.initialZoom
    /\ panX = config.initialPanX
    /\ panY = config.initialPanY
    /\ isPanning = FALSE
    /\ panStartRef = [x |-> I(0), y |-> I(0), panX |-> I(0), panY |-> I(0)]
    /\ view = Snapshot(config.initialZoom, config.initialPanX, config.initialPanY, FALSE)
    /\ calls = 0
    /\ layout = NoLayout
    /\ pc = "none"
    /\ cells = <<>>
    /\ adjusted = <<>>
    /\ iterations = 0
    /\ searchDistance = 0
    /\ sortedBlocks = <<>>
    /\ placedBounds = <<>>
    /\ args = NoArgs
    /\ result = NoArgs
    /\ props \in CanvasProps
    /\ internalSelection = props.defaultValue
    /\ emitted = <<>>
    /\ InitAlias

\* const isControlled = value !== undefined
isControlled == props.value # undefined

\* const selection = isControlled ? value : internalSelection
selection == IF isControlled THEN ValueOf(props.value) ELSE internalSelection

includes(list, label) == \E k \in DOMAIN list : list[k] = label

\* the new selection always has the label appended
toggleSelectionAppend(list, label) == Append(list, label)

\* selection.includes(label) ? selection.filter((l) => l !== label) : [...selection, label]
toggleSelection(list, label) ==
    IF includes(list, label)
    THEN SelectSeq(list, LAMBDA l : l # label)
    ELSE Append(list, label)

\* selectablePredicate ? selectablePredicate(cell) : true
isSelectable(cell) ==
    IF props.selectablePredicate = undefined THEN TRUE
    ELSE cell.label \in ValueOf(props.selectablePredicate)

isAvailable(cell) == cell.status = "available"

\* the callbacks handleCellClick calls with newSelection, in order
clickCallbacks(cell, newSelection) ==
    (IF props.onSelectionChange
     THEN << [fn |-> "onSelectionChange", selected |-> newSelection] >> ELSE <<>>)
    \o (IF props.onCellClick THEN << [fn |-> "onCellClick", cell |-> cell] >> ELSE <<>>)

handleCellClick ==
    \E cell \in ClickCells :
        /\ calls < MaxCalls
        /\ calls' = calls + 1
        /\ args' = [fn |-> "handleCellClick", cell |-> cell]
        /\ IF cell.label = "" \/ ~isSelectable(cell) \/ ~isAvailable(cell)
           THEN /\ emitted' = <<>>
                /\ UNCHANGED <<props, internalSelection>>
           ELSE LET newSelection == toggleSelection(selection, cell.label)
                IN  /\ internalSelection' =
                           IF ~isControlled THEN newSelection ELSE internalSelection
                    /\ emitted' = clickCallbacks(cell, newSelection)
                    /\ props' = IF isControlled /\ props.onSelectionChange
                                   /\ props.parent = "follows"
                                THEN [props EXCEPT !.value = Some(newSelection)]
                                ELSE props
        /\ UNCHANGED <<config, zoom, panX, panY, isPanning, panStartRef, view>>
        /\ UNCHANGED <<layout, pc, cells, adjusted, loopVars, aliasVars, result>>

NextCanvas == handleCellClick

SpecCanvas == InitCanvas /\ [][NextCanvas]_vars

(***************************************************************************)
(* The whole controller: every operation useZoomPan returns, in any order, *)
(* with renders in between or not, for configurations with                 *)
(* 0 < minZoom <= maxZoom.                                                 *)
(***************************************************************************)
PositiveZoomRanges == {<<Q(1, 10), I(5)>>, <<I(1), I(1)>>, <<I(2), I(4)>>}

ControllerConfigs ==
    { [minZoom |-> r[1], maxZoom |-> r[2], zoomSpeed |-> Q(1, 10), initialZoom |-> r[k],
       initialPanX |-> I(0), initialPanY |-> I(0)] :
        r \in PositiveZoomRanges, k \in {1, 2} }

InitController ==
    /\ config \in ControllerConfigs
    /\ zoom = config.initialZoom
    /\ panX = config.initialPanX
    /\ panY = config.initialPanY
    /\ isPanning = FALSE
    /\ panStartRef = [x |-> I(0), y |-> I(0), panX |-> I(0), panY |-> I(0)]
    /\ view = Snapshot(config.initialZoom, config.initialPanX, config.initialPanY, FALSE)
    /\ calls = 0
    /\ layout = NoLayout
    /\ pc = "none"
    /\ cells = <<>>
    /\ adjusted = <<>>
    /\ InitAux

NextController ==
    \/ setZoom \/ zoomIn \/ zoomOut \/ zoomToPoint \/ handleWheel \/ fitToView \/ resetZoom
    \/ startPan \/ updatePan \/ endPan
    \/ Render

SpecController == InitController /\ [][NextController]_vars

(***************************************************************************)
(* Calls of findNeighborInDirection, on the generated layouts and on cells *)
(* placed around the thresholds of the direction test: 5 and 6 away,       *)
(* on the diagonals, and at equal distances.                               *)
(***************************************************************************)
ScatterCell(k, x, y) ==
    [id |-> [index |-> k], x |-> I(x), y |-> I(y), w |-> I(4), h |-> I(4)]

ScatterLayouts ==
    { << ScatterCell(0, 0, 0), ScatterCell(1, 0, 5), ScatterCell(2, 0, 6),
         ScatterCell(3, 6, 6), ScatterCell(4, 5, -6), ScatterCell(5, -6, -3),
         ScatterCell(6, 0, -6), ScatterCell(7, -6, 0), ScatterCell(8, 0, 0) >>,
      << ScatterCell(0, 10, 10), ScatterCell(1, 30, 20), ScatterCell(2, 20, 30),
         ScatterCell(3, 30, 0), ScatterCell(4, 0, 30), ScatterCell(5, -10, 0),
         ScatterCell(6, 16, 10), ScatterCell(7, 10, 16), ScatterCell(8, 4, 10) >> }

NeighborArguments ==
    UNION { { [fn |-> "findNeighborInDirection", cells |-> cs, current |-> k,
               direction |-> d, rtl |-> r] :
                k \in 1..Len(cs), d \in Directions, r \in BOOLEAN } :
            cs \in NavigationLayouts \cup ScatterLayouts }

InitNeighbor == InitCall(NeighborArguments)

NeighborCall ==
    /\ args.fn = "findNeighborInDirection"
    /\ Return(findNeighborInDirection(args.cells, args.current, args.direction, args.rtl))

NextNeighbor == NeighborCall

SpecNeighbor == InitNeighbor /\ [][NextNeighbor]_vars

(***************************************************************************)
(* Calls of generateLabel for a cell of a grid, next to the label          *)
(* createGridLayout gives that cell.                                       *)
(***************************************************************************)
SchemeNumberings ==
    { Some([scheme |-> Some(s), startIndex |-> si, colStart |-> undefined,
            rowLabels |-> undefined]) :
        s \in {"snake", "index"}, si \in {undefined, Some(0), Some(1)} }

SchemeArguments ==
    { [fn |-> "generateLabel", rows |-> 3, cols |-> c, row |-> r, col |-> k,
       numbering |-> n, labelPrefix |-> p] :
        c \in {1, 3, 100, 101}, r \in 0..2, k \in {0, 1, 2, 99, 100},
        n \in SchemeNumberings, p \in {undefined, Some(<<"S">>)} }

InitScheme == InitCall({a \in SchemeArguments : a.col < a.cols})

SchemeCall ==
    /\ args.fn = "generateLabel"
    /\ Return([direct |-> generateLabel(args.row, args.col, args.numbering, args.labelPrefix),
               grid |-> gridLabel(args, args.row, args.col),
               firstOfNextRow |-> generateLabel(args.row + 1, 0, args.numbering,
                                                args.labelPrefix)])

NextScheme == SchemeCall

SpecScheme == InitScheme /\ [][NextScheme]_vars

(***************************************************************************)
(* Calls of createGridLayout for the labels as keys: every scheme, small   *)
(* grids and one with more than ten rows and columns.                      *)
(***************************************************************************)
KeyNumberings ==
    {undefined} \cup
    { Some([scheme |-> Some(s), startIndex |-> si, colStart |-> c0, rowLabels |-> undefined]) :
        s \in {"row-col", "snake", "index", "alpha-rows"},
        si \in {undefined, Some(0), Some(1)},
        c0 \in {undefined, Some(0), Some(10)} }

KeyedGrids ==
    { [fn |-> "createGridLayout", rows |-> r, cols |-> c, numbering |-> n, labelPrefix |-> p] :
        r \in {1, 2, 11}, c \in {1, 3, 11}, n \in KeyNumberings,
        p \in {undefined, Some(<<"A">>)} }

InitGridKeys == InitCall(KeyedGrids)

GridKeysCall ==
    /\ args.fn = "createGridLayout"
    /\ Return(gridLabels(args))

NextGridKeys == GridKeysCall

SpecGridKeys == InitGridKeys /\ [][NextGridKeys]_vars

(***************************************************************************)
(* Finite numbers of any magnitude, for the sizes that do not fit the      *)
(* integers of the checker: the value s * m / 2^e with the sign s, the     *)
(* magnitude m as a list of limbs (least significant first, no leading     *)
(* zero limb) and the binary exponent e.  They are exact under +, -, *,    *)
(* halving and comparison, which is all preserveRelativeStrategy applies.  *)
(***************************************************************************)
LimbBase == 2^15

Big(s, m, e) == [s |-> s, m |-> m, e |-> e]

RECURSIVE trimLimbs(_)
trimLimbs(m) ==
    IF m = <<>> \/ m[Len(m)] # 0 THEN m ELSE trimLimbs(SubSeq(m, 1, Len(m) - 1))

RECURSIVE limbsOf(_)
limbsOf(i) == IF i = 0 THEN <<>> ELSE <<i % LimbBase>> \o limbsOf(i \div LimbBase)

RECURSIVE addLimbs(_, _, _)
addLimbs(a, b, carry) ==
    IF a = <<>> /\ b = <<>> THEN (IF carry = 0 THEN <<>> ELSE <<carry>>)
    ELSE LET x == IF a = <<>> THEN 0 ELSE Head(a)
             y == IF b = <<>> THEN 0 ELSE Head(b)
             t == x + y + carry
         IN  <<t % LimbBase>> \o addLimbs(IF a = <<>> THEN a ELSE Tail(a),
                                          IF b = <<>> THEN b ELSE Tail(b),
                                          t \div LimbBase)

\* a - b - borrow for a >= b + borrow, untrimmed
RECURSIVE subLimbs(_, _, _)
subLimbs(a, b, borrow) ==
    IF a = <<>> THEN <<>>
    ELSE LET y == IF b = <<>> THEN 0 ELSE Head(b)
             t == Head(a) - y - borrow
         IN  IF t < 0
             THEN <<t + LimbBase>> \o subLimbs(Tail(a), IF b = <<>> THEN b ELSE Tail(b), 1)
             ELSE <<t>> \o subLimbs(Tail(a), IF b = <<>> THEN b ELSE Tail(b), 0)

\* -1, 0 or 1 as a < b, a = b or a > b
RECURSIVE compareLimbs(_, _)
compareLimbs(a, b) ==
    IF Len(a) # Len(b) THEN (IF Len(a) < Len(b) THEN -1 ELSE 1)
    ELSE IF a = <<>> THEN 0
    ELSE IF a[Len(a)] # b[Len(b)] THEN (IF a[Len(a)] < b[Len(b)] THEN -1 ELSE 1)
    ELSE compareLimbs(SubSeq(a, 1, Len(a) - 1), SubSeq(b, 1, Len(b) - 1))

\* m * k for a limb k
RECURSIVE scaleLimbs(_, _, _)
scaleLimbs(m, k, carry) ==
    IF m = <<>> THEN (IF carry = 0 THEN <<>> ELSE <<carry>>)
    ELSE LET t == Head(m) * k + carry
         IN  <<t % LimbBase>> \o scaleLimbs(Tail(m), k, t \div LimbBase)

RECURSIVE mulLimbs(_, _)
mulLimbs(a, b) ==
    IF b = <<>> \/ a = <<>> THEN <<>>
    ELSE trimLimbs(addLimbs(scaleLimbs(a, Head(b), 0), <<0>> \o mulLimbs(a, Tail(b)), 0))

RECURSIVE Log2(_)
Log2(d) == IF d <= 1 THEN 0 ELSE 1 + Log2(d \div 2)

\* the limbs of 2^k
RECURSIVE limbsOfPow2(_)
limbsOfPow2(k) == IF k = 0 THEN <<1>> ELSE scaleLimbs(limbsOfPow2(k - 1), 2, 0)

BigPow2(k) == Big(1, limbsOfPow2(k), 0)

\* a number n / 2^k of the rational form in the limb form
ToBig(a) ==
    IF "m" \in DOMAIN a THEN a
    ELSE Big(Sign(a.n), limbsOf(Abs(a.n)), Log2(a.d))

\* x - y or y - x, as c says which magnitude is the larger
BigDifference(x, y, c) ==
    IF c = 0 THEN Big(0, <<>>, 0)
    ELSE IF c > 0 THEN Big(x.s, trimLimbs(subLimbs(x.m, y.m, 0)), x.e)
    ELSE Big(y.s, trimLimbs(subLimbs(y.m, x.m, 0)), x.e)

\* x + y, after bringing both to the larger exponent
RECURSIVE BigSum(_, _)
BigSum(x, y) ==
    IF x.e < y.e THEN BigSum(Big(x.s, addLimbs(x.m, x.m, 0), x.e + 1), y)
    ELSE IF y.e < x.e THEN BigSum(y, x)
    ELSE IF x.s = 0 THEN y
    ELSE IF y.s = 0 THEN x
    ELSE IF x.s = y.s THEN Big(x.s, addLimbs(x.m, y.m, 0), x.e)
    ELSE BigDifference(x, y, compareLimbs(x.m, y.m))

BigAdd(a, b) == BigSum(ToBig(a), ToBig(b))

BigNeg(a) == Big(-ToBig(a).s, ToBig(a).m, ToBig(a).e)

BigSub(a, b) == BigAdd(a, BigNeg(b))

BigProduct(x, y) ==
    IF x.s = 0 \/ y.s = 0 THEN Big(0, <<>>, 0)
    ELSE Big(x.s * y.s, mulLimbs(x.m, y.m), x.e + y.e)

BigMul(a, b) == BigProduct(ToBig(a), ToBig(b))

\* a / 2
BigHalf(a) == IF ToBig(a).s = 0 THEN ToBig(a) ELSE Big(ToBig(a).s, ToBig(a).m, ToBig(a).e + 1)

BigLt(a, b) == BigSub(a, b).s < 0

BigLe(a, b) == ~BigLt(b, a)

BigMin(a, b) == IF BigLt(b, a) THEN ToBig(b) ELSE ToBig(a)

(***************************************************************************)
(* preserveRelativeStrategy on two overlapping blocks, step by step, with  *)
(* the numbers in the limb form: blocks of the usual shapes at the same    *)
(* and at different origins, a block without rows and columns, a small     *)
(* block inside a large one, and a block of cell size 1 in the corner of a *)
(* block whose cell size is 2^52 or 2^60.                                  *)
(***************************************************************************)
calculateSectionBoundsBig(block, minSectionSpacing) ==
    LET gap == block.gap
        totalWidth == BigMul(I(block.cols), BigAdd(block.cellSize, gap))
        totalHeight == BigMul(I(block.rows), BigAdd(block.cellSize, gap))
        spacing == minSectionSpacing
    IN  [x      |-> BigSub(block.origin.x, BigHalf(spacing)),
         y      |-> BigSub(block.origin.y, BigHalf(spacing)),
         width  |-> BigAdd(totalWidth, spacing),
         height |-> BigAdd(totalHeight, spacing)]

rectanglesIntersectBig(rect1, rect2) ==
    ~(\/ BigLe(BigAdd(rect1.x, rect1.width), rect2.x)
      \/ BigLe(BigAdd(rect2.x, rect2.width), rect1.x)
      \/ BigLe(BigAdd(rect1.y, rect1.height), rect2.y)
      \/ BigLe(BigAdd(rect2.y, rect2.height), rect1.y))

sectionsOverlapBig(block1, block2, minSectionSpacing) ==
    rectanglesIntersectBig(calculateSectionBoundsBig(block1, minSectionSpacing),
                           calculateSectionBoundsBig(block2, minSectionSpacing))

detectSectionOverlapsBig(blocks, minSectionSpacing) ==
    LET hit(p) == sectionsOverlapBig(blocks[p[1]], blocks[p[2]], minSectionSpacing)
        found == SelectSeq(PairsFrom(1, Len(blocks)), hit)
        overlappingPairs ==
            [k \in 1..Len(found) |->
                [section1 |-> blocks[found[k][1]],
                 section2 |-> blocks[found[k][2]],
                 section1Bounds |-> calculateSectionBoundsBig(blocks[found[k][1]],
                                                              minSectionSpacing),
                 section2Bounds |-> calculateSectionBoundsBig(blocks[found[k][2]],
                                                              minSectionSpacing)]]
    IN  [hasOverlaps |-> Len(overlappingPairs) > 0,
         overlappingPairs |-> overlappingPairs,
         overlapCount |-> Len(overlappingPairs)]

shiftXBig(adj, k, by) == [adj EXCEPT ![k].origin.x = BigAdd(@, by)]

shiftYBig(adj, k, by) == [adj EXCEPT ![k].origin.y = BigAdd(@, by)]

\* the two blocks move apart by shift, the one with the smaller coordinate downwards
nudgeXBig(adj, idx1, idx2, shift) ==
    IF BigLt(adj[idx1].origin.x, adj[idx2].origin.x)
    THEN shiftXBig(shiftXBig(adj, idx1, BigNeg(shift)), idx2, shift)
    ELSE shiftXBig(shiftXBig(adj, idx1, shift), idx2, BigNeg(shift))

nudgeYBig(adj, idx1, idx2, shift) ==
    IF BigLt(adj[idx1].origin.y, adj[idx2].origin.y)
    THEN shiftYBig(shiftYBig(adj, idx1, BigNeg(shift)), idx2, shift)
    ELSE shiftYBig(shiftYBig(adj, idx1, shift), idx2, BigNeg(shift))

nudgePairBig(adj, overlap, minSpacing) ==
    LET idx1 == findIndex(adj, overlap.section1.id)
        idx2 == findIndex(adj, overlap.section2.id)
        b1 == overlap.section1Bounds
        b2 == overlap.section2Bounds
        overlapX == BigMin(BigSub(BigAdd(b1.x, b1.width), b2.x),
                           BigSub(BigAdd(b2.x, b2.width), b1.x))
        overlapY == BigMin(BigSub(BigAdd(b1.y, b1.height), b2.y),
                           BigSub(BigAdd(b2.y, b2.height), b1.y))
    IN  IF idx1 = 0 \/ idx2 = 0 THEN adj
        ELSE IF BigLt(overlapX, overlapY)
        THEN nudgeXBig(adj, idx1, idx2, BigAdd(BigHalf(overlapX), minSpacing))
        ELSE nudgeYBig(adj, idx1, idx2, BigAdd(BigHalf(overlapY), minSpacing))

RECURSIVE nudgeLoopBig(_, _, _, _)
nudgeLoopBig(adj, pairs, k, minSpacing) ==
    IF k > Len(pairs) THEN adj
    ELSE nudgeLoopBig(nudgePairBig(adj, pairs[k], minSpacing), pairs, k + 1, minSpacing)

hasOverlapsBig(blocks, minSpacing) == detectSectionOverlapsBig(blocks, minSpacing).hasOverlaps

UnitShape(cellSize) == [rows |-> 1, cols |-> 1, cellSize |-> cellSize, gap |-> I(0)]

EmptyShape == [rows |-> 0, cols |-> 0, cellSize |-> I(10), gap |-> I(0)]

NestedBlockLists ==
    { <<Block("A", sh, o), Block("B", UnitShape(I(6000)), Point(I(0), I(0)))>> :
        sh \in {UnitShape(I(10)), EmptyShape},
        o \in {Point(I(0), I(0)), Point(I(10), I(20)), Point(I(3000), I(3000))} }

HugeBlockLists ==
    { <<Block("A", UnitShape(BigPow2(k)), Point(I(0), I(0))),
        Block("B", UnitShape(I(1)), Point(I(1), I(1)))>> : k \in {52, 60} }

PreserveArguments ==
    { c \in { SectionsConfig(bs, sp, opt) :
                bs \in {b \in BlockLists : Len(b) = 2} \cup NestedBlockLists \cup HugeBlockLists,
                sp \in {I(0), I(20)},
                opt \in {o \in SectionOptions :
                            /\ o.sectionLayoutStrategy = "preserve-relative"
                            /\ o.autoPreventSectionOverlaps} } :
        hasOverlapsBig(c.blocks, c.minSectionSpacing) }

InitPreserve == InitGen(PreserveArguments)

\* case 'preserve-relative': let adjusted = blocks.map(...); let iterations = 0
PreserveBeginBig ==
    /\ pc = "input"
    /\ Len(layout.blocks) > 0
    /\ hasOverlapsBig(layout.blocks, layout.minSectionSpacing)
    /\ layout.sectionLayoutStrategy = "preserve-relative"
    /\ adjusted' = layout.blocks
    /\ callerBlocks' = layout.blocks
    /\ sharedOrigins' = sharedAfterCopy(layout.blocks)
    /\ iterations' = 0
    /\ pc' = "relax"
    /\ UNCHANGED <<layout, cells, fnVars, searchDistance, sortedBlocks, placedBounds>>
    /\ UNCHANGED <<ctlVars, uiVars>>

\* one iteration of the while loop that does not break
RelaxStepBig ==
    /\ pc = "relax"
    /\ relaxContinues(iterations)
    /\ hasOverlapsBig(adjusted, layout.minSectionSpacing)
    /\ adjusted' = nudgeLoopBig(adjusted,
                       detectSectionOverlapsBig(adjusted,
                                                layout.minSectionSpacing).overlappingPairs,
                       1, layout.minSectionSpacing)
    /\ iterations' = iterations + 1
    /\ callerBlocks' = [k \in DOMAIN callerBlocks |->
                           IF k \in sharedOrigins
                           THEN [callerBlocks[k] EXCEPT !.origin = adjusted'[k].origin]
                           ELSE callerBlocks[k]]
    /\ UNCHANGED <<layout, pc, cells, fnVars, searchDistance, sortedBlocks, placedBounds,
                   sharedOrigins>>
    /\ UNCHANGED <<ctlVars, uiVars>>

\* the loop condition fails, or the break; return adjusted
RelaxExitBig ==
    /\ pc = "relax"
    /\ ~relaxContinues(iterations) \/ ~hasOverlapsBig(adjusted, layout.minSectionSpacing)
    /\ pc' = "returned"
    /\ UNCHANGED <<layout, cells, adjusted, fnVars, loopVars, aliasVars>>
    /\ UNCHANGED <<ctlVars, uiVars>>

NextPreserve ==
    \/ PreserveBeginBig
    \/ RelaxStepBig
    \/ RelaxExitBig

SpecPreserve == InitPreserve /\ [][NextPreserve]_vars

GridIsRowMajor ==
    pc = "grid" =>
        /\ Len(cells) = layout.rows * layout.cols
        /\ \A k \in 1..Len(cells) :
              /\ cells[k].id.row = (k - 1) \div layout.cols
              /\ cells[k].id.col = (k - 1) % layout.cols
        /\ \A r \in 0..(layout.rows - 1), c \in 0..(layout.cols - 1) :
              Cardinality({k \in 1..Len(cells) : cells[k].id = [row |-> r, col |-> c]}) = 1
        /\ (layout.rows = 0 \/ layout.cols = 0) => cells = <<>>

\* a grid with more columns than rows, generated
GridIsRowMajorWitness ==
    /\ pc = "grid"
    /\ layout.rows = 2 /\ layout.cols = 3
    /\ Len(cells) = 6
    /\ cells[4].id = [row |-> 1, col |-> 0]

(***************************************************************************)
(* C3: every circle layout with count >= 2 is collision-free: two cells    *)
(* with different id.index are placed at different angles modulo 360       *)
(* degrees, hence at different centres; in particular the first seat and   *)
(* the last seat.                                                          *)
(***************************************************************************)
SameAngle(c1, c2) == Mod360(c1.rotation) = Mod360(c2.rotation)

CircleSeatsAtDistinctAngles ==
    (pc = "circle" /\ layout.count >= 2) =>
        \A i, j \in 1..Len(cells) :
            cells[i].id.index # cells[j].id.index =>
                /\ ~SameAngle(cells[i], cells[j])
                /\ <<cells[i].x, cells[i].y>> # <<cells[j].x, cells[j].y>>

(***************************************************************************)
(* C7: an arc or circle config with count = N yields exactly N cells and   *)
(* the i-th returned cell has id.index = i, so the indices are exactly     *)
(* [0, N) without repeats.                                                 *)
(***************************************************************************)
ArcIndexIsPosition ==
    pc \in {"arc", "circle"} =>
        /\ Len(cells) = layout.count
        /\ \A k \in 1..Len(cells) : cells[k].id.index = k - 1
        /\ {cells[k].id.index : k \in 1..Len(cells)} = 0..(layout.count - 1)

\* a circle of MaxCount seats, generated
ArcIndexIsPositionWitness ==
    /\ pc = "circle"
    /\ layout.count = MaxCount
    /\ Len(cells) = MaxCount
    /\ cells[MaxCount].id.index = MaxCount - 1

(***************************************************************************)
(* Helpers of the section claims.                                          *)
(***************************************************************************)
InputOverlaps == detectSectionOverlaps(layout.blocks, layout.minSectionSpacing).hasOverlaps

OutputOverlaps == detectSectionOverlaps(adjusted, layout.minSectionSpacing).hasOverlaps

\* the position of the block with this id in the input config
InputIndex(id) == findIndex(layout.blocks, id)

(***************************************************************************)
(* C2: createSectionsLayout emits the per-block cell groups in the order   *)
(* of the blocks in the input config, for every strategy and whether or    *)
(* not the blocks were repositioned: if block A precedes block B in        *)
(* config.blocks, every cell of A precedes every cell of B.                *)
(***************************************************************************)
SectionCellsInInputOrder ==
    pc = "sections" =>
        \A i, j \in 1..Len(cells) :
            InputIndex(cells[i].id.sectionId) < InputIndex(cells[j].id.sectionId) => i < j

(***************************************************************************)
(* C5: for every block list with at least one overlapping pair, the blocks *)
(* the compact strategy returns under spacing s are overlap-free:          *)
(* detectSectionOverlaps(result, s).hasOverlaps is false.                  *)
(***************************************************************************)
CompactResultHasNoOverlaps ==
    (/\ pc = "adjusted"
     /\ layout.sectionLayoutStrategy = "compact"
     /\ InputOverlaps)
    => ~OutputOverlaps

(***************************************************************************)
(* C8: createSectionsLayout returns exactly the sum over the blocks of     *)
(* rows*cols cells, and for each input block id the cells carrying that    *)
(* sectionId are exactly the block's grid cells, each (row, col) once,     *)
(* whether or not repositioning ran and even when it leaves overlaps.      *)
(***************************************************************************)
RECURSIVE SumOfCells(_, _)
SumOfCells(blocks, i) ==
    IF i > Len(blocks) THEN 0 ELSE blocks[i].rows * blocks[i].cols + SumOfCells(blocks, i + 1)

CellsOfSection(id) == {k \in 1..Len(cells) : cells[k].id.sectionId = id}

SectionCellsAreBlockGrids ==
    pc = "sections" =>
        /\ Len(cells) = SumOfCells(layout.blocks, 1)
        /\ \A b \in 1..Len(layout.blocks) :
              LET block == layout.blocks[b]
              IN  /\ Cardinality(CellsOfSection(block.id)) = block.rows * block.cols
                  /\ \A r \in 0..(block.rows - 1), c \in 0..(block.cols - 1) :
                        Cardinality({k \in CellsOfSection(block.id) :
                                        cells[k].id.row = r /\ cells[k].id.col = c}) = 1

\* a layout whose blocks were repositioned and still overlap, generated
SectionCellsAreBlockGridsWitness ==
    /\ pc = "sections"
    /\ adjusted # layout.blocks
    /\ OutputOverlaps
    /\ Len(cells) = 5

(***************************************************************************)
(* C9: autoAdjustSectionPositions is a no-op when no pair of input blocks  *)
(* overlaps under the given spacing: for every strategy it returns the     *)
(* input blocks unchanged and in the same order.                           *)
(***************************************************************************)
AdjustIsNoOpWithoutOverlap ==
    (pc = "adjusted" /\ ~InputOverlaps) => adjusted = layout.blocks

\* two blocks that do not overlap, given to the distribute strategy
AdjustIsNoOpWithoutOverlapWitness ==
    /\ pc = "adjusted"
    /\ ~InputOverlaps
    /\ Len(layout.blocks) = 2
    /\ layout.sectionLayoutStrategy = "distribute"
    /\ distributeLayoutStrategy(layout.blocks, layout.minSectionSpacing,
                                layout.sectionLayoutDirection) # layout.blocks

(***************************************************************************)
(* C10: the distribute strategy, applied to an overlapping input, keeps    *)
(* the input block order; in horizontal mode every origin.y is the least   *)
(* input origin.y and the right edge of block i's occupied rectangle is    *)
(* exactly minSectionSpacing left of block i+1's left edge; in vertical    *)
(* mode the same with x and y exchanged.                                   *)
(***************************************************************************)
Occupied(block) == calculateSectionBounds(block, I(0))

LeastOf(S) == CHOOSE m \in S : \A v \in S : Le(m, v)

DistributeIsExact ==
    (/\ pc = "adjusted"
     /\ layout.sectionLayoutStrategy = "distribute"
     /\ InputOverlaps)
    => /\ Len(adjusted) = Len(layout.blocks)
       /\ \A k \in 1..Len(adjusted) : adjusted[k].id = layout.blocks[k].id
       /\ IF layout.sectionLayoutDirection = "horizontal"
          THEN /\ \A k \in 1..Len(adjusted) :
                     adjusted[k].origin.y =
                         LeastOf({layout.blocks[q].origin.y : q \in 1..Len(layout.blocks)})
               /\ \A k \in 1..(Len(adjusted) - 1) :
                     Sub(Occupied(adjusted[k + 1]).x,
                         Add(Occupied(adjusted[k]).x, Occupied(adjusted[k]).width))
                     = layout.minSectionSpacing
          ELSE /\ \A k \in 1..Len(adjusted) :
                     adjusted[k].origin.x =
                         LeastOf({layout.blocks[q].origin.x : q \in 1..Len(layout.blocks)})
               /\ \A k \in 1..(Len(adjusted) - 1) :
                     Sub(Occupied(adjusted[k + 1]).y,
                         Add(Occupied(adjusted[k]).y, Occupied(adjusted[k]).height))
                     = layout.minSectionSpacing

\* overlapping blocks distributed vertically with a spacing of 20
DistributeIsExactWitness ==
    /\ pc = "adjusted"
    /\ layout.sectionLayoutStrategy = "distribute"
    /\ layout.sectionLayoutDirection = "vertical"
    /\ InputOverlaps
    /\ layout.minSectionSpacing = I(20)
    /\ Len(adjusted) = MaxBlocks
    /\ adjusted[1].origin.x # layout.blocks[1].origin.x

(***************************************************************************)
(* C11: autoAdjustSectionPositions always returns a block list (one block  *)
(* per input block): the preserve-relative loop never runs more than       *)
(* maxIterations iterations and leaves at the first iteration that finds   *)
(* no overlapping pair, and the ring search never examines a ring beyond   *)
(* maxSearchDistance before the fallback position is used.                 *)
(***************************************************************************)
AdjustReturned ==
    /\ pc = "returned"
    /\ Len(adjusted) = Len(layout.blocks)
    /\ {adjusted[k].id : k \in 1..Len(adjusted)}
         = {layout.blocks[k].id : k \in 1..Len(layout.blocks)}

\* the call takes finitely many steps, and stops only when it has returned
AdjustTerminates ==
    /\ <>[][FALSE]_vars
    /\ [](Runnable \/ AdjustReturned)
    /\ [](iterations <= maxIterations)
    /\ [](searchDistance <= maxSearchDistance + searchStep)
    /\ [][/\ iterations' # iterations => hasOverlaps(adjusted, layout.minSectionSpacing)
          /\ (pc = "relax" /\ ~hasOverlaps(adjusted, layout.minSectionSpacing))
                => (pc' = "returned" /\ adjusted' = adjusted)
          /\ searchDistance' > searchDistance => searchDistance <= maxSearchDistance
          /\ searchDistance > maxSearchDistance
                => adjusted'[Len(adjusted')].origin.x = I(maxSearchDistance)]_vars

\* the loop was cut off by the cap with an overlap left, or the search fell back
AdjustTerminatesWitness ==
    /\ pc = "returned"
    /\ \/ iterations = maxIterations /\ hasOverlaps(adjusted, layout.minSectionSpacing)
       \/ \E k \in 1..Len(adjusted) :
              /\ adjusted[k].origin.x = I(maxSearchDistance)
              /\ layout.sectionLayoutStrategy = "compact"

(***************************************************************************)
(* C12: rectanglesIntersect gives the same answer for (a, b) and (b, a),   *)
(* and answers false when a.x + a.width == b.x or a.y + a.height == b.y    *)
(* (the rectangles share a boundary edge).                                 *)
(***************************************************************************)
SharesEdge(a, b) ==
    \/ StrictEquals(Add(a.x, a.width), b.x)
    \/ StrictEquals(Add(a.y, a.height), b.y)

IntersectIsSymmetric ==
    (pc = "called" /\ args.fn = "rectanglesIntersect") =>
        /\ result.ab = result.ba
        /\ SharesEdge(args.a, args.b) => ~result.ab
        /\ SharesEdge(args.b, args.a) => ~result.ab

\* b starts where a ends on the x axis, and their y ranges overlap
IntersectIsSymmetricWitness ==
    /\ pc = "called"
    /\ args.fn = "rectanglesIntersect"
    /\ args.a = [x |-> I(0), y |-> I(0), width |-> I(5), height |-> I(10)]
    /\ args.b = [x |-> I(5), y |-> I(5), width |-> I(5), height |-> I(5)]
    /\ ~result.ab
    /\ ~result.ba

(***************************************************************************)
(* C13: for sweepDegrees in (0, 360], cellWidth > 0, minSpacing >= 0 and   *)
(* n >= 1, calculateMinimumArcRadius(n + 1, ...) is at least               *)
(* calculateMinimumArcRadius(n, ...).                                      *)
(***************************************************************************)
MinimumArcRadiusIsMonotone ==
    (pc = "called" /\ args.fn = "calculateMinimumArcRadius") =>
        Le(result.radius, result.radiusOfOneMore)

(***************************************************************************)
(* C14: for a current cell with row and col, findGridNeighbor returns the  *)
(* cell of the same section one row up or down, or one column left or      *)
(* right (left and right exchanged under rtl), and null when there is no   *)
(* such cell; so 'right' under rtl is 'left' without rtl, and the result   *)
(* is never a cell of another section.                                     *)
(***************************************************************************)
GridNeighborIsAdjacent ==
    (/\ pc = "called"
     /\ args.fn = "findGridNeighbor"
     /\ {"row", "col"} \subseteq DOMAIN args.cells[args.current].id) =>
        LET cur == args.cells[args.current]
            leftward == IF args.rtl THEN "right" ELSE "left"
            row == cur.id.row + (IF args.direction = "up" THEN -1
                                 ELSE IF args.direction = "down" THEN 1 ELSE 0)
            col == cur.id.col + (IF args.direction \in {"up", "down"} THEN 0
                                 ELSE IF args.direction = leftward THEN -1 ELSE 1)
            wanted == {j \in 1..Len(args.cells) :
                          /\ args.cells[j].id.row = row
                          /\ args.cells[j].id.col = col
                          /\ sameSectionId(args.cells[j], cur)}
        IN  /\ wanted = {} => result.found = 0
            /\ wanted # {} => result.found \in wanted
            /\ args.direction \in {"left", "right"} => result.found = result.opposite

\* 'right' under rtl leads to the column on the left, within a section
GridNeighborIsAdjacentWitness ==
    /\ pc = "called"
    /\ args.fn = "findGridNeighbor"
    /\ args.rtl
    /\ args.direction = "right"
    /\ result.found # 0
    /\ "sectionId" \in DOMAIN args.cells[args.current].id
    /\ args.cells[result.found].id.col = args.cells[args.current].id.col - 1

(***************************************************************************)
(* C15: for a current cell with index i among N index-identified cells,    *)
(* findAngularNeighbor returns for left the cell with index i - 1 and for  *)
(* right the one with index i + 1 (exchanged under rtl), and null when     *)
(* that index is outside 0..N-1: the ends do not wrap around, also in a    *)
(* circle.                                                                 *)
(***************************************************************************)
AngularNeighborDoesNotWrap ==
    (/\ pc = "called"
     /\ args.fn = "findAngularNeighbor"
     /\ "index" \in DOMAIN args.cells[args.current].id
     /\ args.direction \in {"left", "right"}) =>
        LET i == args.cells[args.current].id.index
            target == IF (args.direction = "left") # args.rtl THEN i - 1 ELSE i + 1
        IN  IF target \in 0..(Len(args.cells) - 1)
            THEN result.found # 0 /\ args.cells[result.found].id.index = target
            ELSE result.found = 0

\* right of the last seat of the circle there is nothing
AngularNeighborDoesNotWrapWitness ==
    /\ pc = "called"
    /\ args.fn = "findAngularNeighbor"
    /\ Len(args.cells) = 4
    /\ "index" \in DOMAIN args.cells[args.current].id
    /\ args.cells[args.current].id.index = 3
    /\ args.direction = "right"
    /\ ~args.rtl
    /\ result.found = 0

(***************************************************************************)
(* C16: after fitToView(contentW, contentH, viewportW, viewportH, padding) *)
(* the zoom is min((viewportW - 2 padding) / contentW,                     *)
(* (viewportH - 2 padding) / contentH) brought into [minZoom, maxZoom] and *)
(* the pan is (0, 0), whatever they were before; content 1000 x 1000 in a  *)
(* viewport 500 x 500 without padding gives 0.5 if that is in the range.   *)
(***************************************************************************)
FitToViewFitsAndCentres ==
    args.fn = "fitToView" =>
        LET two == I(2)
            scaleX == Div(Sub(args.viewportWidth, Mul(two, args.padding)), args.contentWidth)
            scaleY == Div(Sub(args.viewportHeight, Mul(two, args.padding)), args.contentHeight)
            scale == IF IsNaN(scaleX) \/ IsNaN(scaleY) THEN NaN
                     ELSE IF Le(scaleX, scaleY) THEN scaleX ELSE scaleY
            fitted == IF IsNaN(scale) THEN NaN
                      ELSE IF Lt(config.maxZoom, scale) \/ Lt(config.maxZoom, config.minZoom)
                      THEN config.maxZoom
                      ELSE IF Lt(scale, config.minZoom) THEN config.minZoom
                      ELSE scale
        IN  /\ zoom = fitted
            /\ panX = I(0)
            /\ panY = I(0)
            /\ (/\ args.contentWidth = I(1000) /\ args.contentHeight = I(1000)
                /\ args.viewportWidth = I(500) /\ args.viewportHeight = I(500)
                /\ args.padding = I(0)
                /\ Le(config.minZoom, Q(1, 2)) /\ Le(Q(1, 2), config.maxZoom))
               => zoom = Q(1, 2)

\* the example of the specification, called on a zoomed and panned view
FitToViewFitsAndCentresWitness ==
    /\ args.fn = "fitToView"
    /\ args.contentWidth = I(1000)
    /\ args.viewportWidth = I(500)
    /\ zoom = Q(1, 2)
    /\ panX = I(0)
    /\ view.panX # I(0)
    /\ view.zoom # Q(1, 2)

(***************************************************************************)
(* C17: zoomToPoint(cx, cy, d) keeps the world point under the cursor: for *)
(* a controller with minZoom > 0, with (z, p) the zoom and pan of the      *)
(* render the callback belongs to and (z', p') the ones it sets,           *)
(* (c - p) / z == (c - p') / z' on both axes, also when z + d is clamped.  *)
(***************************************************************************)
ZoomToPointStep == args'.fn = "zoomToPoint" /\ calls' = calls + 1

CursorPointIsFixed ==
    /\ StrictEquals(Div(Sub(args'.clientX, view.panX), view.zoom),
                    Div(Sub(args'.clientX, panX'), zoom'))
    /\ StrictEquals(Div(Sub(args'.clientY, view.panY), view.zoom),
                    Div(Sub(args'.clientY, panY'), zoom'))

PanStep == args'.fn \in {"startPan", "updatePan", "endPan"} /\ calls' = calls + 1

UpdatePanStep == args'.fn = "updatePan" /\ calls' = calls + 1

PanFollowsPointer ==
    /\ panX' = Add(panStartRef.panX, Sub(args'.clientX, panStartRef.x))
    /\ panY' = Add(panStartRef.panY, Sub(args'.clientY, panStartRef.y))

PanIsASession ==
    [][/\ (UpdatePanStep /\ isPanning) => PanFollowsPointer
       /\ (UpdatePanStep /\ ~isPanning) => UNCHANGED <<panX, panY>>
       /\ PanStep => zoom' = zoom]_vars

(***************************************************************************)
(* C19: under the row-col scheme and without rowLabels, generateLabel      *)
(* returns rowLabel followed by (col + colStart), where rowLabel is        *)
(* labelPrefix followed by (row + startIndex) when a (non-empty)           *)
(* labelPrefix is set and otherwise the alphabetic encoding of row (0 is   *)
(* A, 25 is Z, 26 is AA); with rowLabels, rowLabel is the entry of the row *)
(* when it has a non-empty one and otherwise (row + startIndex).  Prefix   *)
(* "A", startIndex 1, colStart 1 gives "A11" for (0, 0), "A23" for (1, 2). *)
(***************************************************************************)
LetterNumber(ch) == CHOOSE k \in 1..26 : DEFAULT_ALPHABET[k] = ch

\* the number a string of letters stands for, counting A, ..., Z, AA, AB, ... from 0
RECURSIVE alphaCount(_)
alphaCount(label) ==
    IF label = <<>> THEN 0
    ELSE alphaCount(SubSeq(label, 1, Len(label) - 1)) * 26 + LetterNumber(label[Len(label)])

IsAlphaEncoding(label, row) ==
    /\ label # <<>>
    /\ \A k \in DOMAIN label : \E j \in 1..26 : DEFAULT_ALPHABET[j] = label[k]
    /\ alphaCount(label) = row + 1

RowColCall ==
    /\ pc = "called"
    /\ args.fn = "generateLabel"
    /\ orElse(optionalField(args.config, "scheme"), "row-col") = "row-col"

ArgStartIndex == orElse(optionalField(args.config, "startIndex"), 1)

ArgColStart == orElse(optionalField(args.config, "colStart"), 1)

\* the result is rowLabel followed by (col + colStart), for some rowLabel
ColumnSuffix == numberToString(args.col + ArgColStart)

ResultRowLabel == SubSeq(result, 1, Len(result) - Len(ColumnSuffix))

RowLabelByPrefix ==
    /\ result = ResultRowLabel \o ColumnSuffix
    /\ IF truthy(args.labelPrefix)
       THEN ResultRowLabel = ValueOf(args.labelPrefix) \o numberToString(args.row + ArgStartIndex)
       ELSE IsAlphaEncoding(ResultRowLabel, args.row)

RowLabelByList ==
    LET rowLabels == ValueOf(optionalField(args.config, "rowLabels"))
    IN  /\ result = ResultRowLabel \o ColumnSuffix
        /\ IF args.row + 1 \in DOMAIN rowLabels /\ rowLabels[args.row + 1] # <<>>
           THEN ResultRowLabel = rowLabels[args.row + 1]
           ELSE ResultRowLabel = numberToString(args.row + ArgStartIndex)

IsBaseExample(row, col) ==
    /\ args.row = row /\ args.col = col
    /\ args.labelPrefix = Some(<<"A">>)
    /\ args.config # undefined
    /\ ValueOf(args.config).startIndex = Some(1)
    /\ ValueOf(args.config).colStart = Some(1)
    /\ ValueOf(args.config).rowLabels = undefined

RowColLabel ==
    RowColCall =>
        /\ IF optionalField(args.config, "rowLabels") = undefined
           THEN RowLabelByPrefix ELSE RowLabelByList
        /\ IsBaseExample(0, 0) => result = <<"A", "1", "1">>
        /\ IsBaseExample(1, 2) => result = <<"A", "2", "3">>

\* the same with the row label from the prefix or the alphabet for every rowLabels
RowColLabelAnyRowLabels == RowColCall => RowLabelByPrefix

RowColLabelWitness ==
    /\ RowColCall
    /\ IsBaseExample(1, 2)
    /\ result = <<"A", "2", "3">>

(***************************************************************************)
(* C20: in an R x C grid generated with the snake scheme the cell at       *)
(* (row, col) is labelled (after the prefix) with row*C + col + startIndex *)
(* on even rows and row*C + (C-1-col) + startIndex on odd rows; the R*C    *)
(* indices are exactly the integers of [startIndex, startIndex + R*C),     *)
(* each once, and cells whose indices differ by 1 are adjacent in the      *)
(* grid.                                                                   *)
(***************************************************************************)
SnakeCall ==
    /\ pc = "called"
    /\ args.fn = "createGridLayout"
    /\ optionalField(args.numbering, "scheme") = Some("snake")

GridStartIndex == orElse(optionalField(args.numbering, "startIndex"), 1)

\* row and column of the i-th cell generated
RowOf(i) == (i - 1) \div args.cols

ColOf(i) == (i - 1) % args.cols

SnakeIndex(i) ==
    IF RowOf(i) % 2 = 0
    THEN RowOf(i) * args.cols + ColOf(i) + GridStartIndex
    ELSE RowOf(i) * args.cols + (args.cols - 1 - ColOf(i)) + GridStartIndex

LabelOfIndex(n) == orElse(args.labelPrefix, <<>>) \o numberToString(n)

AbsoluteDifference(a, b) == IF a < b THEN b - a ELSE a - b

GridDistance(i, j) ==
    AbsoluteDifference(RowOf(i), RowOf(j)) + AbsoluteDifference(ColOf(i), ColOf(j))

SnakeNumbering ==
    SnakeCall =>
        /\ Len(result) = args.rows * args.cols
        /\ \A i \in DOMAIN result : result[i] = LabelOfIndex(SnakeIndex(i))
        /\ \A n \in GridStartIndex..(GridStartIndex + args.rows * args.cols - 1) :
               Cardinality({i \in DOMAIN result : result[i] = LabelOfIndex(n)}) = 1
        /\ \A i, j \in DOMAIN result :
               SnakeIndex(i) = SnakeIndex(j) + 1 => GridDistance(i, j) = 1

\* a grid of several rows and columns, whose second row runs backwards
SnakeNumberingWitness ==
    /\ SnakeCall
    /\ args.rows >= 3 /\ args.cols >= 3
    /\ args.labelPrefix = Some(<<"S">>)
    /\ GridStartIndex = 98
    /\ result[args.cols + 1] = <<"S">> \o numberToString(98 + 2 * args.cols - 1)
    /\ result[2 * args.cols] = <<"S">> \o numberToString(98 + args.cols)

(***************************************************************************)
(* C21: getAlphaLabel is the bijective base-26 numbering: 0 gives A, 25 Z, *)
(* 26 AA, 27 AB, 51 AZ, 52 BA, 701 ZZ and 702 AAA; it terminates for every *)
(* index >= 0, and different indices give different labels.                *)
(***************************************************************************)
AlphaReturned == pc = "called" /\ args.fn = "getAlphaLabel"

AlphaExamples ==
    << <<0, <<"A">> >>, <<25, <<"Z">> >>, <<26, <<"A", "A">> >>, <<27, <<"A", "B">> >>,
       <<51, <<"A", "Z">> >>, <<52, <<"B", "A">> >>, <<701, <<"Z", "Z">> >>,
       <<702, <<"A", "A", "A">> >> >>

AlphaLabelIsBijectiveBase26 ==
    /\ <>[][FALSE]_vars
    /\ [](pc \in {"input", "alpha"} \/ AlphaReturned)
    /\ [](AlphaReturned =>
            /\ IsAlphaEncoding(result.label, args.index)
            /\ \A k \in DOMAIN AlphaExamples :
                   args.index = AlphaExamples[k][1] => result.label = AlphaExamples[k][2]
            /\ args.index # args.other => result.label # result.other
            /\ args.index = args.other => result.label = result.other)

\* 702 was encoded in three executions of the loop body
AlphaLabelIsBijectiveBase26Witness ==
    /\ AlphaReturned
    /\ args.index = 702
    /\ args.other = 26
    /\ result.label = <<"A", "A", "A">>
    /\ result.other = <<"A", "A">>

(***************************************************************************)
(* C22: handleCellClick on a cell that is selectable and 'available' makes *)
(* the selection with the cell's label added if it was absent and removed  *)
(* if it was present, every other label as before (so toggling the same    *)
(* label twice gives the labels back); it is the new internal selection    *)
(* when uncontrolled, and what onSelectionChange is given.  A click on a   *)
(* cell that is not 'available' or is rejected by selectablePredicate      *)
(* changes no selection and calls neither onSelectionChange nor            *)
(* onCellClick.  In controlled mode internalSelection is never written.    *)
(***************************************************************************)
LabelsOf(list) == {list[k] : k \in DOMAIN list}

Others(list, label) == SelectSeq(list, LAMBDA l : l # label)

ClickStep == args'.fn = "handleCellClick" /\ calls' = calls + 1

ClickAccepted ==
    /\ args'.cell.label # ""
    /\ args'.cell.status = "available"
    /\ props.selectablePredicate = undefined
         \/ args'.cell.label \in ValueOf(props.selectablePredicate)

\* list is the selection before the step with the clicked label toggled
IsToggled(list) ==
    LET label == args'.cell.label
    IN  /\ Others(list, label) = Others(selection, label)
        /\ (label \in LabelsOf(list)) = (label \notin LabelsOf(selection))

ClickTogglesSelection ==
    /\ [][(ClickStep /\ ClickAccepted) =>
            /\ ~isControlled => IsToggled(internalSelection')
            /\ props.onSelectionChange =>
                   /\ emitted'[1].fn = "onSelectionChange"
                   /\ IsToggled(emitted'[1].selected)
            /\ props.onCellClick =>
                   emitted'[Len(emitted')] = [fn |-> "onCellClick", cell |-> args'.cell]]_vars
    /\ [][(ClickStep /\ ~ClickAccepted) =>
            /\ emitted' = <<>>
            /\ UNCHANGED <<internalSelection, props>>]_vars
    /\ [][isControlled => internalSelection' = internalSelection]_vars
    /\ [](\A cell \in ClickCells :
            LabelsOf(toggleSelection(toggleSelection(selection, cell.label), cell.label))
                = LabelsOf(selection))

\* uncontrolled, nothing selected at first: the second click on A2 took it out again
ClickTogglesSelectionWitness ==
    /\ args.fn = "handleCellClick"
    /\ args.cell = [label |-> "A2", status |-> "available"]
    /\ ~isControlled
    /\ props.defaultValue = <<>>
    /\ calls = 2
    /\ internalSelection = <<>>
    /\ Len(emitted) = 2

(***************************************************************************)
(* C23: for every configuration with 0 < minZoom <= maxZoom, in every      *)
(* state reachable by controller operations zoom is strictly positive and  *)
(* within [minZoom, maxZoom]; resetZoom yields zoom = 1 and pan = (0, 0).  *)
(***************************************************************************)
ZoomPositiveAndWithinRange ==
    /\ [](/\ Lt(I(0), zoom)
          /\ Le(config.minZoom, zoom)
          /\ Le(zoom, config.maxZoom))
    /\ [][(args'.fn = "resetZoom" /\ calls' = calls + 1) =>
             (zoom' = I(1) /\ panX' = I(0) /\ panY' = I(0))]_vars

(***************************************************************************)
(* C24: findNeighborInDirection never returns the current cell; a cell it  *)
(* returns satisfies the direction predicate relative to the current cell  *)
(* (up: dy < -5 and |dx| < |dy|; down: dy > 5 and |dx| < |dy|; left:       *)
(* dx < -5 and |dy| < |dx|; right: dx > 5 and |dy| < |dx|; left and right  *)
(* exchanged under rtl) and no other qualifying cell is strictly nearer;   *)
(* it returns null exactly when no cell qualifies.                         *)
(***************************************************************************)
NeighborReturned == pc = "called" /\ args.fn = "findNeighborInDirection"

Dx(j) == Sub(args.cells[j].x, args.cells[args.current].x)

Dy(j) == Sub(args.cells[j].y, args.cells[args.current].y)

AskedDirection ==
    IF args.rtl /\ args.direction = "left" THEN "right"
    ELSE IF args.rtl /\ args.direction = "right" THEN "left"
    ELSE args.direction

Qualifies(j) ==
    /\ j # args.current
    /\ \/ AskedDirection = "up" /\ Lt(Dy(j), I(-5)) /\ Lt(MathAbs(Dx(j)), MathAbs(Dy(j)))
       \/ AskedDirection = "down" /\ Lt(I(5), Dy(j)) /\ Lt(MathAbs(Dx(j)), MathAbs(Dy(j)))
       \/ AskedDirection = "left" /\ Lt(Dx(j), I(-5)) /\ Lt(MathAbs(Dy(j)), MathAbs(Dx(j)))
       \/ AskedDirection = "right" /\ Lt(I(5), Dx(j)) /\ Lt(MathAbs(Dy(j)), MathAbs(Dx(j)))

\* the square of the Euclidean distance to the current cell
SquaredDistance(j) == Add(Mul(Dx(j), Dx(j)), Mul(Dy(j), Dy(j)))

NeighborIsNearestInDirection ==
    NeighborReturned =>
        /\ result # args.current
        /\ result # 0 =>
               /\ Qualifies(result)
               /\ \A j \in 1..Len(args.cells) :
                      Qualifies(j) => ~Lt(SquaredDistance(j), SquaredDistance(result))
        /\ result = 0 <=> ~\E j \in 1..Len(args.cells) : Qualifies(j)

\* among several qualifying cells the nearer one was returned, and a cell in the
\* half plane asked for but off the dominant axis was passed over
NeighborIsNearestInDirectionWitness ==
    /\ NeighborReturned
    /\ result # 0
    /\ \E j \in 1..Len(args.cells) :
           Qualifies(j) /\ Lt(SquaredDistance(result), SquaredDistance(j))
    /\ \E j \in 1..Len(args.cells) :
           /\ ~Qualifies(j)
           /\ isInDirectionHalfPlane(AskedDirection, Dx(j), Dy(j))
           /\ Lt(SquaredDistance(j), SquaredDistance(result))

(***************************************************************************)
(* C25: for every grid size R x C, also with C > 100, and every (row, col) *)
(* the label generateLabel produces for the scheme 'snake' or 'index' is   *)
(* the label the grid generator gives that cell, so that no two cells of   *)
(* one grid receive the same label from it.                                *)
(***************************************************************************)
SchemeLabelUsesColumnCount ==
    (pc = "called" /\ args.fn = "generateLabel" /\ "cols" \in DOMAIN args) =>
        /\ result.direct = result.grid
        /\ (args.col > 0 /\ args.row + 1 < args.rows) => result.direct # result.firstOfNextRow

(***************************************************************************)
(* C26: section repositioning changes origins only.  For every strategy    *)
(* the blocks autoAdjustSectionPositions returns have the same multiset of *)
(* ids as the blocks passed, each returned block has the rows, cols,       *)
(* cellSize, gap, numbering and labelPrefix of the block passed with its   *)
(* id, and the objects passed, their origins included, are not modified by *)
(* the call.                                                               *)
(***************************************************************************)
IdCount(blocks, id) == Cardinality({k \in DOMAIN blocks : blocks[k].id = id})

SameButOrigin(a, b) ==
    /\ DOMAIN a = DOMAIN b
    /\ \A f \in DOMAIN a \ {"origin"} : a[f] = b[f]
    /\ {"rows", "cols", "cellSize", "gap", "numbering", "labelPrefix"} \subseteq DOMAIN a

RepositioningChangesOriginsOnly ==
    /\ [](pc # "input" => callerBlocks = layout.blocks)
    /\ [](pc = "returned" =>
            /\ Len(adjusted) = Len(layout.blocks)
            /\ \A k \in DOMAIN layout.blocks :
                   IdCount(adjusted, layout.blocks[k].id)
                       = IdCount(layout.blocks, layout.blocks[k].id)
            /\ \A k \in DOMAIN adjusted :
                   \E j \in DOMAIN layout.blocks :
                       /\ layout.blocks[j].id = adjusted[k].id
                       /\ SameButOrigin(adjusted[k], layout.blocks[j]))

\* each strategy returned blocks in other places, the compact one in another order
RepositioningChangesOriginsOnlyWitness ==
    /\ pc = "returned"
    /\ Len(adjusted) >= 2
    /\ \A k \in DOMAIN adjusted : adjusted[k].origin # layout.blocks[k].origin
    /\ \/ layout.sectionLayoutStrategy = "preserve-relative" /\ iterations > 0
       \/ layout.sectionLayoutStrategy = "distribute"
       \/ /\ layout.sectionLayoutStrategy = "compact"
          /\ adjusted[1].id # layout.blocks[1].id

(***************************************************************************)
(* C27: within one generated grid distinct cells receive distinct labels,  *)
(* for every numbering scheme (row-col with or without labelPrefix, snake, *)
(* index, alpha-rows without rowLabels), every startIndex and colStart and *)
(* every grid size.                                                        *)
(***************************************************************************)
GridLabelsAreDistinct ==
    (pc = "called" /\ args.fn = "createGridLayout") =>
        \A i, j \in DOMAIN result : i # j => result[i] # result[j]

(***************************************************************************)
(* C28: no zoom update is lost.  A zoomIn, zoomOut, zoomToPoint or         *)
(* handleWheel is applied to the zoom and pan the operation before it      *)
(* produced, whether or not the component has rendered in between: zoomIn  *)
(* sets clamp(z (1 + zoomSpeed)) and zoomOut clamp(z (1 - zoomSpeed)) for  *)
(* the latest zoom z, and zoomToPoint and handleWheel zoom at the cursor   *)
(* from the latest zoom and pan.                                           *)
(***************************************************************************)
ControllerStep(fn) == args'.fn = fn /\ calls' = calls + 1

\* zoomToPoint(clientX, clientY, deltaZoom) applied to the latest zoom and pan
ZoomAtCursorFromLatest(clientX, clientY, deltaZoom) ==
    LET newZoom == clamp(Add(zoom, deltaZoom), config.minZoom, config.maxZoom)
        zoomRatio == Div(newZoom, zoom)
    IN  /\ zoom' = newZoom
        /\ panX' = Sub(clientX, Mul(Sub(clientX, panX), zoomRatio))
        /\ panY' = Sub(clientY, Mul(Sub(clientY, panY), zoomRatio))

NoZoomUpdateIsLost ==
    [][/\ ControllerStep("zoomIn") =>
              zoom' = clamp(Mul(zoom, Add(I(1), config.zoomSpeed)),
                            config.minZoom, config.maxZoom)
       /\ ControllerStep("zoomOut") =>
              zoom' = clamp(Mul(zoom, Sub(I(1), config.zoomSpeed)),
                            config.minZoom, config.maxZoom)
       /\ ControllerStep("zoomToPoint") =>
              ZoomAtCursorFromLatest(args'.clientX, args'.clientY, args'.deltaZoom)
       /\ ControllerStep("handleWheel") =>
              ZoomAtCursorFromLatest(args'.clientX, args'.clientY,
                  Mul(Mul(zoom, Mul(Neg(args'.deltaY), Q(1, 1000))), config.zoomSpeed))]_vars

(***************************************************************************)
(* C29: during a pan session (after a startPan not yet followed by endPan) *)
(* updatePan(x, y) sets the pan to the pan snapshotted at startPan plus    *)
(* the displacement of the pointer since startPan, whatever zoomToPoint,   *)
(* handleWheel, resetZoom or fitToView did in between: the pan they wrote  *)
(* is overwritten and the zoom they set is kept.                           *)
(***************************************************************************)
PanOverwritesAndKeepsZoom ==
    [][(ControllerStep("updatePan") /\ isPanning) =>
           /\ panX' = Add(panStartRef.panX, Sub(args'.clientX, panStartRef.x))
           /\ panY' = Add(panStartRef.panY, Sub(args'.clientY, panStartRef.y))
           /\ zoom' = zoom]_vars

(***************************************************************************)
(* C30: for two section blocks with distinct ids that overlap (identical   *)
(* origins and nesting included), with non-negative sizes and              *)
(* minSectionSpacing >= 0, the blocks the preserve-relative strategy       *)
(* returns do not overlap: detectSectionOverlaps(result,                   *)
(* minSectionSpacing).hasOverlaps is false.                                *)
(***************************************************************************)
PreserveSeparatesTwoBlocks ==
    (/\ pc = "returned"
     /\ layout.sectionLayoutStrategy = "preserve-relative"
     /\ Len(layout.blocks) = 2
     /\ layout.blocks[1].id # layout.blocks[2].id
     /\ Le(I(0), layout.minSectionSpacing))
        => ~detectSectionOverlapsBig(adjusted, layout.minSectionSpacing).hasOverlaps

====
